---- MODULE Spec2Model ----
(***************************************************************************)
(* Model of the isolation assessment pipeline of SoundIsolationTester      *)
(* (ai_analyzer.py, with the part of speech_recognizer.py it calls), and   *)
(* of the text match and spoofing check of main.py.                        *)
(*                                                                         *)
(* Numbers.  The code computes in floating point.  The model computes the  *)
(* same expressions exactly:                                               *)
(*   - a score, a similarity or a dB value is a "float": a record          *)
(*     [k, n, d] where k is "fin" (the rational n/d, d > 0, in lowest      *)
(*     terms), "nan", "-inf" or "+inf";                                    *)
(*   - an RMS amplitude or a ratio of two amplitudes is an "amp": zero,    *)
(*     nan, or the positive amplitude 10^(db/20) for an integer db, so     *)
(*     that 20*log10 of it is the integer db, exactly.                     *)
(* Rounding of the floating-point operations is not modelled.              *)
(*                                                                         *)
(* Text.  A string is a sequence of one-character strings.                 *)
(*                                                                         *)
(* Dictionaries.  A Python dict is a function from its keys; {} is         *)
(* EmptyDict.                                                              *)
(***************************************************************************)
EXTENDS Integers, Sequences, FiniteSets, TLC

----------------------------------------------------------------------------
(* Python dicts *)

EmptyDict == [key \in {} |-> TRUE]

Has(dict, key) == key \in DOMAIN dict

Get(dict, key, default) == IF key \in DOMAIN dict THEN dict[key] ELSE default

Put(dict, key, value) ==
    [x \in (DOMAIN dict) \cup {key} |-> IF x = key THEN value ELSE dict[x]]

----------------------------------------------------------------------------
(* Floats: exact rationals plus nan and the infinities *)

Abs(i) == IF i < 0 THEN -i ELSE i

RECURSIVE GCD(_, _)
GCD(a, b) == IF b = 0 THEN a ELSE GCD(b, a % b)

Sign(i) == IF i < 0 THEN -1 ELSE 1

\* the rational n/d (d # 0) in lowest terms with a positive denominator
F(n, d) ==
    LET g == GCD(Abs(n), Abs(d))
    IN  [k |-> "fin", n |-> (Sign(d) * n) \div g, d |-> Abs(d) \div g]

NaN == [k |-> "nan", n |-> 0, d |-> 1]

NegInf == [k |-> "-inf", n |-> 0, d |-> 1]

PosInf == [k |-> "+inf", n |-> 0, d |-> 1]

IsFinite(x) == x.k = "fin"

\* IEEE comparisons: every comparison with nan is false
FLt(x, y) ==
    CASE x.k = "nan" \/ y.k = "nan" -> FALSE
      [] x.k = "fin" /\ y.k = "fin" -> x.n * y.d < y.n * x.d
      [] x.k = "-inf" -> y.k # "-inf"
      [] x.k = "+inf" -> FALSE
      [] OTHER -> y.k = "+inf"

FLe(x, y) ==
    CASE x.k = "nan" \/ y.k = "nan" -> FALSE
      [] x.k = "fin" /\ y.k = "fin" -> x.n * y.d <= y.n * x.d
      [] OTHER -> x.k = y.k \/ FLt(x, y)

FGe(x, y) == FLe(y, x)

FGt(x, y) == FLt(y, x)

FNeg(x) ==
    CASE x.k = "fin" -> F(-x.n, x.d)
      [] x.k = "-inf" -> PosInf
      [] x.k = "+inf" -> NegInf
      [] OTHER -> NaN

FAdd(x, y) ==
    CASE x.k = "nan" \/ y.k = "nan" -> NaN
      [] x.k = "fin" /\ y.k = "fin" -> F(x.n * y.d + y.n * x.d, x.d * y.d)
      [] x.k = "fin" -> y
      [] y.k = "fin" -> x
      [] OTHER -> IF x.k = y.k THEN x ELSE NaN

FSub(x, y) == FAdd(x, FNeg(y))

\* products and quotients are only taken of finite values in the code modelled
FMul(x, y) ==
    IF x.k = "fin" /\ y.k = "fin" THEN F(x.n * y.n, x.d * y.d) ELSE NaN

\* y is finite and not zero wherever the code divides
FDiv(x, y) ==
    IF x.k = "fin" /\ y.k = "fin" /\ y.n # 0 THEN F(x.n * y.d, x.d * y.n) ELSE NaN

\* Python's min(a, b) and max(a, b): the first argument unless the second is
\* strictly smaller (larger)
PyMin(a, b) == IF FLt(b, a) THEN b ELSE a

PyMax(a, b) == IF FGt(b, a) THEN b ELSE a

----------------------------------------------------------------------------
(* Amplitudes: zero, nan, or 10^(db/20) *)

AmpZero == [k |-> "zero", db |-> 0]

AmpNaN == [k |-> "nan", db |-> 0]

Amp(db) == [k |-> "pos", db |-> db]

\* a > 0 (false for nan)
AmpPositive(a) == a.k = "pos"

\* a >= b for two positive amplitudes
AmpGe(a, b) == a.db >= b.db

\* a / b for two positive amplitudes
AmpDiv(a, b) == Amp(a.db - b.db)

\* 20 * log10(a) for a positive amplitude
Log10Times20(a) == F(a.db, 1)

----------------------------------------------------------------------------
(* Text *)

\* str.lower() on the characters of the model's alphabet
LowerChar(c) == IF c = "A" THEN "a" ELSE IF c = "B" THEN "b" ELSE c

Lower(text) == [i \in 1..Len(text) |-> LowerChar(text[i])]

\* \s of the regular expression, and the separators of str.split()
IsSpace(c) == c = " "

\* \w of the regular expression
IsWordChar(c) == c \in {"a", "b", "c", "d", "x", "A", "B", "yo", "ye"}

\* re.sub(r'[^\w\s]', '', text): drop what is neither a word character nor white space
RECURSIVE StripPunctuation(_)
StripPunctuation(text) ==
    IF text = <<>> THEN <<>>
    ELSE IF IsWordChar(Head(text)) \/ IsSpace(Head(text))
         THEN <<Head(text)>> \o StripPunctuation(Tail(text))
         ELSE StripPunctuation(Tail(text))

\* str.split(): the maximal runs of characters that are not white space
RECURSIVE SplitFrom(_, _)
SplitFrom(text, word) ==
    IF text = <<>> THEN (IF word = <<>> THEN <<>> ELSE <<word>>)
    ELSE IF IsSpace(Head(text))
         THEN (IF word = <<>> THEN <<>> ELSE <<word>>) \o SplitFrom(Tail(text), <<>>)
         ELSE SplitFrom(Tail(text), Append(word, Head(text)))

Split(text) == SplitFrom(text, <<>>)

\* _clean_and_split_text
CleanAndSplitText(text) ==
    IF text = <<>> THEN <<>> ELSE Split(StripPunctuation(Lower(text)))

\* word[:3]
Prefix3(word) == SubSeq(word, 1, 3)

\* an inner loop that goes on to the end of recognized_words and keeps the last
\* match it met
RECURSIVE ScanRecognizedKeepingLast(_, _, _)
ScanRecognizedKeepingLast(ref_word, recognized_words, j) ==
    IF j > Len(recognized_words) THEN 0
    ELSE LET later == ScanRecognizedKeepingLast(ref_word, recognized_words, j + 1)
         IN  IF later # 0 THEN later
             ELSE IF ref_word = recognized_words[j] THEN 2
             ELSE IF Len(ref_word) >= 3 /\ Len(recognized_words[j]) >= 3
                     /\ Prefix3(ref_word) = Prefix3(recognized_words[j]) THEN 1
             ELSE 0

\* _count_matching_words: the inner loop over recognized_words from position j on;
\* the result is the score of ref_word doubled (2 = full match, 1 = prefix match)
RECURSIVE ScanRecognized(_, _, _)
ScanRecognized(ref_word, recognized_words, j) ==
    IF j > Len(recognized_words) THEN 0
    ELSE IF ref_word = recognized_words[j] THEN 2
    ELSE IF Len(ref_word) >= 3 /\ Len(recognized_words[j]) >= 3
            /\ Prefix3(ref_word) = Prefix3(recognized_words[j]) THEN 1
    ELSE ScanRecognized(ref_word, recognized_words, j + 1)

RECURSIVE SumScan(_, _, _)
SumScan(ref_words, recognized_words, i) ==
    IF i > Len(ref_words) THEN 0
    ELSE ScanRecognized(ref_words[i], recognized_words, 1)
         + SumScan(ref_words, recognized_words, i + 1)

\* _count_matching_words, as a float (matches counts halves)
CountMatchingWords(ref_words, recognized_words) ==
    IF ref_words = <<>> \/ recognized_words = <<>> THEN F(0, 1)
    ELSE F(SumScan(ref_words, recognized_words, 1), 2)

\* difflib.SequenceMatcher without junk (autojunk needs 200 characters):
\* the length of the common run of a from i and b from j inside a[..ahi], b[..bhi]
RECURSIVE RunLength(_, _, _, _, _, _)
RunLength(a, b, i, j, ahi, bhi) ==
    IF i > ahi \/ j > bhi THEN 0
    ELSE IF a[i] # b[j] THEN 0
    ELSE 1 + RunLength(a, b, i + 1, j + 1, ahi, bhi)

\* find_longest_match(alo, ahi, blo, bhi), bounds inclusive: <<i, j, size>> of the
\* longest common block, the one starting earliest in a and then earliest in b
FindLongestMatch(a, b, alo, ahi, blo, bhi) ==
    LET starts == (alo..ahi) \X (blo..bhi)
        size(p) == RunLength(a, b, p[1], p[2], ahi, bhi)
        best == IF starts = {} THEN 0
                ELSE CHOOSE n \in 0..(ahi - alo + 1) :
                        /\ \E p \in starts : size(p) = n
                        /\ \A p \in starts : size(p) <= n
    IN  IF best = 0 THEN <<alo, blo, 0>>
        ELSE LET besti == CHOOSE i \in alo..ahi :
                            /\ \E j \in blo..bhi : size(<<i, j>>) = best
                            /\ \A i2 \in alo..(i - 1) :
                                  \A j \in blo..bhi : size(<<i2, j>>) # best
                 bestj == CHOOSE j \in blo..bhi :
                            /\ size(<<besti, j>>) = best
                            /\ \A j2 \in blo..(j - 1) : size(<<besti, j2>>) # best
             IN  <<besti, bestj, best>>

\* get_matching_blocks: the total size of the matching blocks
RECURSIVE MatchingSize(_, _, _, _, _, _)
MatchingSize(a, b, alo, ahi, blo, bhi) ==
    IF alo > ahi \/ blo > bhi THEN 0
    ELSE LET m == FindLongestMatch(a, b, alo, ahi, blo, bhi)
         IN  IF m[3] = 0 THEN 0
             ELSE m[3]
                  + MatchingSize(a, b, alo, m[1] - 1, blo, m[2] - 1)
                  + MatchingSize(a, b, m[1] + m[3], ahi, m[2] + m[3], bhi)

\* SequenceMatcher(None, a, b).ratio()
SequenceMatcherRatio(a, b) ==
    IF Len(a) + Len(b) = 0 THEN F(1, 1)
    ELSE F(2 * MatchingSize(a, b, 1, Len(a), 1, Len(b)), Len(a) + Len(b))

\* _calculate_text_similarity (SequenceMatcher does not raise on strings, so the
\* word-based fallback of the except branch is never taken)
CalculateTextSimilarity(text1, text2) ==
    IF text1 = <<>> \/ text2 = <<>> THEN F(0, 1)
    ELSE SequenceMatcherRatio(Lower(text1), Lower(text2))

\* the Levenshtein distance of two word lists, as filled into the matrix d
RECURSIVE Levenshtein(_, _, _, _)
Levenshtein(ref_words, hyp_words, i, j) ==
    IF i = 0 THEN j
    ELSE IF j = 0 THEN i
    ELSE IF ref_words[i] = hyp_words[j]
         THEN Levenshtein(ref_words, hyp_words, i - 1, j - 1)
         ELSE LET substitution == Levenshtein(ref_words, hyp_words, i - 1, j - 1) + 1
                  insertion == Levenshtein(ref_words, hyp_words, i, j - 1) + 1
                  deletion == Levenshtein(ref_words, hyp_words, i - 1, j) + 1
                  m == IF insertion < substitution THEN insertion ELSE substitution
              IN  IF deletion < m THEN deletion ELSE m

\* MultiEngineSpeechRecognizer.calculate_wer
CalculateWer(reference, hypothesis) ==
    IF reference = <<>> \/ hypothesis = <<>> THEN F(1, 1)
    ELSE LET ref_words == Split(reference)
             hyp_words == Split(hypothesis)
         IN  IF ref_words = <<>>
             THEN (IF hyp_words # <<>> THEN F(1, 1) ELSE F(0, 1))
             ELSE PyMin(F(Levenshtein(ref_words, hyp_words,
                                      Len(ref_words), Len(hyp_words)),
                          Len(ref_words)),
                        F(1, 1))

----------------------------------------------------------------------------
(* The inputs of an assessment *)

\* the RMS levels of the recordings: 0, -12, ..., -12 * MaxLevelSteps dBFS
MaxLevelSteps == 5

Levels == {0 - 12 * i : i \in 0..MaxLevelSteps}

\* a WAV file given to the analyzer: missing, holding no frame, or holding samples
\* with the RMS amplitude rms (zero for digital silence)
AudioFiles ==
    {[kind |-> "missing", rms |-> AmpNaN], [kind |-> "empty", rms |-> AmpNaN],
     [kind |-> "samples", rms |-> AmpZero]}
    \cup {[kind |-> "samples", rms |-> Amp(l)] : l \in Levels}

NoText == <<>>

TextABC == <<"a", " ", "b", " ", "c">>

TextC == <<"c">>

TextX == <<"x">>

TextABCPunct == <<"A", " ", "b", " ", "c", ".">>

ReferenceTexts == {NoText, TextABC}

\* what transcribe can return for a channel: the text and the confidence
RecognitionResults ==
    {[text |-> NoText, confidence |-> F(0, 1)],
     [text |-> TextABC, confidence |-> F(9, 10)],
     [text |-> TextC, confidence |-> F(1, 2)],
     [text |-> TextX, confidence |-> F(9, 10)],
     [text |-> TextABCPunct, confidence |-> F(2, 5)]}

Engines == {"whisper-small", "vosk-small-ru"}

----------------------------------------------------------------------------
(* State *)

VARIABLES
    pc,                  \* position of the call of analyze_with_audio_analysis
    recognizer,          \* self.recognizer is not None
    current_engine,      \* self.recognizer.current_engine ("None" when unset)
    outside_audio,       \* the file at outside_audio_path
    inside_audio,        \* the file at inside_audio_path
    reference_text,      \* the argument reference_text (None is NoText)
    enable_speech_recognition,
    audio_analysis,      \* analysis['results']['audio_analysis']
    speech_analysis,     \* analysis['results']['speech_recognition']
    isolation_assessment,\* analysis['results']['isolation_assessment']
    detailed_metrics,    \* analysis['results']['detailed_metrics']
    report,              \* the value returned to the caller
    outcome,             \* "running", "returned" or "raised" (an exception left the call)
    stages,              \* the stages run so far, in order (X_FAILED: X raised)
    call,                \* the last direct call of a function: name, arguments, result
    engines,             \* the keys of self.recognizer.engines: the loaded models
    installed,           \* the engines whose model files are on disk
    stub_current_engine, \* current_engine of a RecognizerStub
    set_engine_call,     \* the last call of set_engine: object, argument, result
    pair_analysis,       \* the speech recognition of an assessment in flight
    experiment,          \* the call of ExperimentManager.run_experiment
    is_recording,        \* AudioCore.is_recording
    streams,             \* the channels of AudioCore.streams: the open streams
    audio_data,          \* the number of chunks in AudioCore.audio_data[channel]
    current_test_name,   \* AudioCore.current_test_name
    record_duration,     \* AudioCore.record_duration
    core_reference_text, \* AudioCore.reference_text
    stop_timer,          \* AudioCore.stop_timer: the number of the last timer (0: none)
    thread,              \* the position of each thread that runs code of AudioCore
    start_call,          \* the arguments and locals of the call of start_recording
    recording,           \* the number of calls of start_recording so far
    started,             \* the arguments of each call of start_recording
    data_recording,      \* the call of start_recording that created audio_data
    save_count,          \* how often the data of each recording has been saved
    saved                \* the files written: names, metadata and the recorder's state

vars == <<pc, recognizer, current_engine, outside_audio, inside_audio, reference_text,
          enable_speech_recognition, audio_analysis, speech_analysis,
          isolation_assessment, detailed_metrics, report, outcome, stages, call,
          engines, installed, stub_current_engine, set_engine_call, pair_analysis,
          experiment, is_recording, streams, audio_data, current_test_name,
          record_duration, core_reference_text, stop_timer, thread, start_call,
          recording, started, data_recording, save_count, saved>>

\* the state of a call of analyze_with_audio_analysis
analysis_vars == <<pc, recognizer, current_engine, outside_audio, inside_audio,
                   reference_text, enable_speech_recognition, audio_analysis,
                   speech_analysis, isolation_assessment, detailed_metrics, report,
                   outcome, stages>>

\* the recognizer's models, the callers of set_engine, the experiment
engine_vars == <<engines, installed, stub_current_engine, set_engine_call, pair_analysis,
                 experiment>>

\* the recorder and the threads that run its code
recorder_vars == <<is_recording, streams, audio_data, current_test_name, record_duration,
                   core_reference_text, stop_timer, thread, start_call, recording,
                   started, data_recording, save_count, saved>>

\* no function has been called directly
NoCall == [fn |-> "none"]

\* set_engine has not been called
NoSetEngineCall == [class |-> "none"]

\* no speech recognition is in flight
NoPairAnalysis == [pc |-> "idle"]

\* run_experiment has not been called
NoExperiment == [pc |-> "idle"]

\* the recognizer and the experiment manager as constructed; a recognizer that has
\* an engine selected has loaded its model
EnginesConstructed ==
    /\ engines = IF current_engine = "None" THEN {} ELSE {current_engine}
    /\ installed = engines
    /\ stub_current_engine = "None"
    /\ set_engine_call = NoSetEngineCall
    /\ pair_analysis = NoPairAnalysis
    /\ experiment = NoExperiment

\* the two microphones
Channels == {"outside", "inside"}

MaxRecordings == 2

MaxChunks == 1

MaxSaves == 2

\* the thread that calls start_recording (main.py: recording_thread), the thread of
\* the user interface, which calls stop_recording and cleanup, and the thread of
\* the threading.Timer of each recording
Starter == <<"starter", 0>>

Gui == <<"gui", 0>>

Timer(i) == <<"timer", i>>

Threads == {Starter, Gui} \cup {Timer(i) : i \in 1..MaxRecordings}

\* start_recording has not been called
NoStartCall == [recording |-> 0]

\* AudioCore.__init__
RecorderConstructed ==
    /\ is_recording = FALSE
    /\ streams = {}
    /\ audio_data = [channel \in Channels |-> 0]
    /\ current_test_name = <<"unknown_test", 0>>
    /\ record_duration = 0
    /\ core_reference_text = "None"
    /\ stop_timer = 0
    /\ thread = [t \in Threads |-> IF t[1] = "timer" THEN "not created" ELSE "idle"]
    /\ start_call = NoStartCall
    /\ recording = 0
    /\ started = <<>>
    /\ data_recording = 0
    /\ save_count = [i \in 0..MaxRecordings |-> 0]
    /\ saved = {}

inputs == <<recognizer, current_engine, outside_audio, inside_audio, reference_text,
            enable_speech_recognition>>

\* EnhancedSoundIsolationAnalyzer.__init__ has run; no call is in progress.  The
\* recognizer may have failed to load, and an engine may or may not have been set.
Init ==
    /\ pc = "idle"
    /\ recognizer \in BOOLEAN
    /\ current_engine \in (IF recognizer THEN Engines \cup {"None"} ELSE {"None"})
    /\ outside_audio = [kind |-> "missing", rms |-> AmpNaN]
    /\ inside_audio = [kind |-> "missing", rms |-> AmpNaN]
    /\ reference_text = NoText
    /\ enable_speech_recognition = FALSE
    /\ audio_analysis = EmptyDict
    /\ speech_analysis = EmptyDict
    /\ isolation_assessment = EmptyDict
    /\ detailed_metrics = EmptyDict
    /\ report = EmptyDict
    /\ outcome = "idle"
    /\ stages = <<>>
    /\ call = NoCall
    /\ EnginesConstructed
    /\ RecorderConstructed

\* analyze_with_audio_analysis is called: the analysis dict is created
Call ==
    /\ pc = "idle"
    /\ outside_audio' \in AudioFiles
    /\ inside_audio' \in AudioFiles
    /\ reference_text' \in ReferenceTexts
    /\ enable_speech_recognition' \in BOOLEAN
    /\ audio_analysis' = EmptyDict
    /\ speech_analysis' = EmptyDict
    /\ isolation_assessment' = EmptyDict
    /\ detailed_metrics' = EmptyDict
    /\ outcome' = "running"
    /\ stages' = <<"CREATED">>
    /\ pc' = "audio_analysis"
    /\ UNCHANGED <<recognizer, current_engine, report, call, engine_vars,
                   recorder_vars>>

----------------------------------------------------------------------------
(* _perform_audio_analysis *)

\* _get_file_stats
GetFileStats(file) == [exists |-> file.kind # "missing"]

\* the RMS of a file that was read: np.sqrt(np.mean(data**2)), nan for no samples
Rms(file) == IF file.kind = "empty" THEN AmpNaN ELSE file.rms

\* the dict analysis['level_comparison'] from the two RMS values
LevelComparison(inside_rms, outside_rms) ==
    LET both == AmpPositive(inside_rms) /\ AmpPositive(outside_rms)
        attenuation_db ==
            IF both
            THEN IF AmpGe(inside_rms, outside_rms)
                 THEN Log10Times20(AmpDiv(inside_rms, outside_rms))
                 ELSE FNeg(Log10Times20(AmpDiv(outside_rms, inside_rms)))
            ELSE F(0, 1)
        reduction_ratio ==
            IF both
            THEN IF AmpGe(inside_rms, outside_rms)
                 THEN AmpDiv(outside_rms, inside_rms)
                 ELSE Amp(0)
            ELSE AmpZero
        inside_level_db ==
            IF AmpPositive(inside_rms) THEN Log10Times20(inside_rms) ELSE NegInf
        outside_level_db ==
            IF AmpPositive(outside_rms) THEN Log10Times20(outside_rms) ELSE NegInf
    IN  [inside_rms |-> inside_rms,
         outside_rms |-> outside_rms,
         attenuation_db |-> attenuation_db,
         reduction_ratio |-> reduction_ratio,
         sound_reduction_index |-> attenuation_db,
         inside_level_db |-> inside_level_db,
         outside_level_db |-> outside_level_db,
         level_difference_db |-> FSub(inside_level_db, outside_level_db)]

\* the dict the function returns.  wave.open raises for a missing file and np.max
\* raises for a file without samples; both are caught inside the function, which
\* then returns what it had filled in.  The sample statistics of basic_metrics
\* (maxima, means, deviations, dynamic ranges, correlation) are read by no later
\* stage: the model keeps one key for them.
PerformAudioAnalysisResult(outside, inside) ==
    LET file_stats == [outside |-> GetFileStats(outside), inside |-> GetFileStats(inside)]
        read_failed == inside.kind = "missing" \/ outside.kind = "missing"
        stats_failed == inside.kind = "empty" \/ outside.kind = "empty"
    IN  [file_stats |-> file_stats,
         level_comparison |->
            IF read_failed THEN EmptyDict
            ELSE LevelComparison(Rms(inside), Rms(outside)),
         spectral_analysis |-> EmptyDict,
         basic_metrics |->
            IF read_failed \/ stats_failed THEN EmptyDict
            ELSE [sample_stats |-> TRUE]]

PerformAudioAnalysis ==
    /\ pc = "audio_analysis"
    /\ audio_analysis' = PerformAudioAnalysisResult(outside_audio, inside_audio)
    /\ stages' = Append(stages,
                         IF inside_audio.kind = "samples" /\ outside_audio.kind = "samples"
                         THEN "LEVEL_ANALYZED" ELSE "LEVEL_FAILED")
    /\ pc' = IF enable_speech_recognition /\ recognizer
             THEN "speech_recognition" ELSE "basic_metrics"
    /\ UNCHANGED <<call, engine_vars, recorder_vars,
                   inputs, speech_analysis, isolation_assessment, detailed_metrics,
                   report, outcome>>

----------------------------------------------------------------------------
(* MultiEngineSpeechRecognizer.analyze_pair and _perform_speech_recognition *)

\* len(text.split())
WordCount(text) == Len(Split(text))

\* the dict analyze_pair returns when both files exist and an engine is set
AnalyzePairResult(outside_result, inside_result, reference) ==
    LET wer == CalculateWer(outside_result.text, inside_result.text)
        leak == FLt(wer, F(1, 2)) /\ WordCount(inside_result.text) > 3
        compared ==
            IF outside_result.text # NoText /\ inside_result.text # NoText
            THEN [wer |-> wer,
                  leakage_detected |-> leak,
                  leakage_score |-> IF leak THEN FSub(F(1, 1), wer) ELSE F(0, 1)]
            ELSE EmptyDict
        comparison ==
            IF reference # NoText
            THEN Put(compared, "wer_to_reference",
                     [outside |-> CalculateWer(reference, outside_result.text),
                      inside |-> CalculateWer(reference, inside_result.text)])
            ELSE compared
    IN  [outside |-> [text |-> outside_result.text,
                      confidence |-> outside_result.confidence,
                      word_count |-> WordCount(outside_result.text)],
         inside |-> [text |-> inside_result.text,
                     confidence |-> inside_result.confidence,
                     word_count |-> WordCount(inside_result.text)],
         comparison |-> comparison,
         engine |-> current_engine]

\* 'engine_info' of the speech analysis
EngineInfo(engine) ==
    IF engine = "None" THEN EmptyDict
    ELSE [name |-> engine,
          type |-> IF engine = "whisper-small" THEN "whisper" ELSE "vosk"]

\* the dict _perform_speech_recognition returns: analyze_pair raises when no engine
\* is set and returns None when a file is missing; otherwise the two files are
\* transcribed (processing times are not modelled)
PerformSpeechRecognitionResult(outside_result, inside_result) ==
    LET blank == [outside |-> EmptyDict, inside |-> EmptyDict, comparison |-> EmptyDict,
                  engine_info |-> EngineInfo(current_engine)]
    IN  IF current_engine = "None" THEN Put(blank, "error", "no engine selected")
        ELSE IF outside_audio.kind = "missing" \/ inside_audio.kind = "missing"
        THEN Put(blank, "error", "empty recognition result")
        ELSE LET r == AnalyzePairResult(outside_result, inside_result, reference_text)
             IN  [outside |-> r.outside, inside |-> r.inside,
                  comparison |-> r.comparison,
                  engine_info |-> EngineInfo(current_engine)]

\* the recognition step going on to the isolation assessment without looking at
\* the reference text
PerformSpeechRecognitionAlwaysAssessing ==
    /\ pc = "speech_recognition"
    /\ \E outside_result \in RecognitionResults, inside_result \in RecognitionResults :
          speech_analysis' = PerformSpeechRecognitionResult(outside_result, inside_result)
    /\ stages' = Append(stages, IF Has(speech_analysis', "error")
                                THEN "TEXT_FAILED" ELSE "TEXT_ANALYZED")
    /\ pc' = "isolation_assessment"
    /\ UNCHANGED <<call, engine_vars, recorder_vars,
                   inputs, audio_analysis, isolation_assessment, detailed_metrics,
                   report, outcome>>

PerformSpeechRecognition ==
    /\ pc = "speech_recognition"
    /\ \E outside_result \in RecognitionResults, inside_result \in RecognitionResults :
          speech_analysis' = PerformSpeechRecognitionResult(outside_result, inside_result)
    /\ stages' = Append(stages, IF Has(speech_analysis', "error")
                                THEN "TEXT_FAILED" ELSE "TEXT_ANALYZED")
    /\ pc' = IF reference_text # NoText THEN "isolation_assessment" ELSE "integrate"
    /\ UNCHANGED <<call, engine_vars, recorder_vars,
                   inputs, audio_analysis, isolation_assessment, detailed_metrics,
                   report, outcome>>

----------------------------------------------------------------------------
(* _assess_room_isolation *)

\* _validate_spoken_text
ValidateSpokenText(recognized_text, reference_text_, confidence) ==
    IF reference_text_ = NoText \/ recognized_text = NoText
    THEN [valid |-> FALSE, match_score |-> F(0, 1), confidence |-> confidence,
          reference |-> reference_text_, recognized |-> recognized_text,
          error |-> "no text to compare"]
    ELSE LET match_score == CalculateTextSimilarity(reference_text_, recognized_text)
             is_valid == FGe(match_score, F(6, 10)) /\ FGe(confidence, F(5, 10))
         IN  [valid |-> is_valid, match_score |-> match_score,
              confidence |-> confidence, reference |-> reference_text_,
              recognized |-> recognized_text, validation_passed |-> is_valid]

\* step 2 of _assess_room_isolation: the metrics from the recognized texts
TextIsolationMetrics(inside_text, outside_text, reference_text_) ==
    LET inside_similarity == CalculateTextSimilarity(reference_text_, inside_text)
        outside_similarity == CalculateTextSimilarity(reference_text_, outside_text)
        isolation_efficiency ==
            IF FGt(inside_similarity, F(0, 1))
            THEN FSub(F(1, 1), FDiv(outside_similarity, inside_similarity))
            ELSE F(0, 1)
        ref_words == CleanAndSplitText(reference_text_)
        words_understood_inside ==
            CountMatchingWords(ref_words, CleanAndSplitText(inside_text))
        words_understood_outside ==
            CountMatchingWords(ref_words, CleanAndSplitText(outside_text))
    IN  [inside_similarity |-> inside_similarity,
         outside_similarity |-> outside_similarity,
         isolation_efficiency |-> isolation_efficiency,
         estimated_attenuation_db |-> FMul(isolation_efficiency, F(50, 1)),
         words_total |-> Len(ref_words),
         words_understood_inside |-> words_understood_inside,
         words_understood_outside |-> words_understood_outside,
         words_lost |-> PyMax(F(0, 1),
                              FSub(words_understood_inside, words_understood_outside)),
         leakage_percentage |->
            IF FGt(inside_similarity, F(0, 1))
            THEN FMul(FDiv(outside_similarity, inside_similarity), F(100, 1))
            ELSE F(100, 1)]

\* step 3 of _assess_room_isolation: the level keys added to isolation_metrics
\* (assessment['isolation_metrics'] exists from the start, so they are always
\* added to it)
AddLevelMetrics(isolation_metrics, level_data) ==
    LET inside_rms == Get(level_data, "inside_rms", AmpZero)
        outside_rms == Get(level_data, "outside_rms", AmpZero)
        attenuation_db ==
            IF AmpGe(inside_rms, outside_rms)
            THEN Log10Times20(AmpDiv(inside_rms, outside_rms))
            ELSE FNeg(Log10Times20(AmpDiv(outside_rms, inside_rms)))
    IN  IF AmpPositive(inside_rms) /\ AmpPositive(outside_rms)
        THEN Put(Put(Put(Put(isolation_metrics,
                "attenuation_db", attenuation_db),
                "level_reduction_ratio", AmpDiv(outside_rms, inside_rms)),
                "inside_level_db", Log10Times20(inside_rms)),
                "outside_level_db", Log10Times20(outside_rms))
        ELSE isolation_metrics

\* the dict _assess_room_isolation returns; raises: an exception is raised at the
\* start of its try block (it is caught inside and recorded under 'error')
AssessRoomIsolationResult(speech, reference_text_, audio, raises) ==
    LET inside_text == Get(speech.inside, "text", NoText)
        outside_text == Get(speech.outside, "text", NoText)
        inside_confidence == Get(speech.inside, "confidence", F(0, 1))
        inside_reference_check ==
            IF reference_text_ # NoText /\ inside_text # NoText
            THEN ValidateSpokenText(inside_text, reference_text_, inside_confidence)
            ELSE [valid |-> FALSE, match_score |-> F(0, 1),
                  error |-> "no text to check"]
        text_metrics ==
            IF inside_text # NoText /\ outside_text # NoText /\ reference_text_ # NoText
            THEN TextIsolationMetrics(inside_text, outside_text, reference_text_)
            ELSE EmptyDict
        isolation_metrics ==
            IF Has(audio, "level_comparison")
            THEN AddLevelMetrics(text_metrics, audio.level_comparison)
            ELSE text_metrics
    IN  IF raises
        THEN [inside_reference_check |-> EmptyDict,
              outside_isolation_check |-> EmptyDict,
              isolation_metrics |-> EmptyDict,
              error |-> "exception"]
        ELSE [inside_reference_check |-> inside_reference_check,
              outside_isolation_check |-> EmptyDict,
              isolation_metrics |-> isolation_metrics]

AssessRoomIsolation ==
    /\ pc = "isolation_assessment"
    /\ \E raises \in BOOLEAN :
          /\ isolation_assessment' =
                AssessRoomIsolationResult(speech_analysis, reference_text,
                                          audio_analysis, raises)
          /\ stages' = Append(stages, IF raises THEN "ISOLATION_FAILED"
                                                ELSE "ISOLATION_ASSESSED")
    /\ pc' = "integrate"
    /\ UNCHANGED <<call, engine_vars, recorder_vars,
                   inputs, audio_analysis, speech_analysis, detailed_metrics,
                   report, outcome>>

----------------------------------------------------------------------------
(* _integrate_analyses, _calculate_composite_scores, _score_to_grade *)

\* grades whose lower bounds are exclusive
ScoreToGradeAboveBounds(score) ==
    IF FGt(score, F(90, 1)) THEN "A"
    ELSE IF FGt(score, F(75, 1)) THEN "B"
    ELSE IF FGt(score, F(60, 1)) THEN "C"
    ELSE IF FGt(score, F(40, 1)) THEN "D"
    ELSE "F"

\* _score_to_grade (a grade is named by its letter)
ScoreToGrade(score) ==
    IF FGe(score, F(90, 1)) THEN "A"
    ELSE IF FGe(score, F(75, 1)) THEN "B"
    ELSE IF FGe(score, F(60, 1)) THEN "C"
    ELSE IF FGe(score, F(40, 1)) THEN "D"
    ELSE "F"

\* composite scores whose total weighs the recognition score with 0.2
CalculateCompositeScoresWeighingRecognitionLess(metrics) ==
    LET attenuation == Get(metrics.basic, "attenuation_db", F(0, 1))
        isolation_score == PyMin(F(100, 1), PyMax(F(0, 1), FMul(attenuation, F(2, 1))))
        wer == Get(metrics.recognition, "wer", F(1, 1))
        wer_score == PyMax(F(0, 1), FSub(F(100, 1), FMul(wer, F(100, 1))))
        iso_efficiency == Get(metrics.isolation_metrics, "isolation_efficiency", F(1, 2))
        efficiency_score == FMul(iso_efficiency, F(100, 1))
        total_score == FAdd(FAdd(FMul(isolation_score, F(4, 10)),
                                 FMul(wer_score, F(2, 10))),
                            FMul(efficiency_score, F(3, 10)))
    IN  [isolation_score |-> isolation_score,
         recognition_score |-> wer_score,
         efficiency_score |-> efficiency_score,
         total_score |-> total_score,
         grade |-> ScoreToGrade(total_score)]

\* _calculate_composite_scores
CalculateCompositeScores(metrics) ==
    LET attenuation == Get(metrics.basic, "attenuation_db", F(0, 1))
        isolation_score == PyMin(F(100, 1), PyMax(F(0, 1), FMul(attenuation, F(2, 1))))
        wer == Get(metrics.recognition, "wer", F(1, 1))
        wer_score == PyMax(F(0, 1), FSub(F(100, 1), FMul(wer, F(100, 1))))
        iso_efficiency == Get(metrics.isolation_metrics, "isolation_efficiency", F(1, 2))
        efficiency_score == FMul(iso_efficiency, F(100, 1))
        total_score == FAdd(FAdd(FMul(isolation_score, F(4, 10)),
                                 FMul(wer_score, F(3, 10))),
                            FMul(efficiency_score, F(3, 10)))
    IN  [isolation_score |-> isolation_score,
         recognition_score |-> wer_score,
         efficiency_score |-> efficiency_score,
         total_score |-> total_score,
         grade |-> ScoreToGrade(total_score)]

\* the keys _integrate_analyses writes into metrics['basic']
IntegrateBasic(basic, level_data) ==
    LET attenuation == Get(level_data, "attenuation_db", F(0, 1))
        with_db == Put(Put(basic, "attenuation_db", attenuation),
                       "sound_reduction_index", attenuation)
        rated(quality, score) ==
            Put(Put(with_db, "isolation_quality", quality), "isolation_score", score)
        over(base) == FMul(FSub(attenuation, F(base, 1)), F(2, 1))
    IN  IF FGe(attenuation, F(50, 1))
        THEN rated("excellent",
                   FAdd(F(90, 1), PyMin(FSub(attenuation, F(50, 1)), F(10, 1))))
        ELSE IF FGe(attenuation, F(40, 1))
        THEN rated("good", FAdd(F(70, 1), PyMin(over(40), F(20, 1))))
        ELSE IF FGe(attenuation, F(30, 1))
        THEN rated("satisfactory", FAdd(F(50, 1), PyMin(over(30), F(20, 1))))
        ELSE IF FGe(attenuation, F(20, 1))
        THEN rated("poor", FAdd(F(30, 1), PyMin(over(20), F(20, 1))))
        ELSE rated("very poor", FMul(attenuation, F(3, 2)))

\* the keys _integrate_analyses writes into metrics['recognition']
IntegrateRecognition(comparison) ==
    LET wer == Get(comparison, "wer", F(1, 1))
        speech_leakage == IF FLt(wer, F(4, 10)) THEN "high"
                          ELSE IF FLt(wer, F(7, 10)) THEN "medium"
                          ELSE "low"
    IN  Put(Put(comparison, "speech_leakage", speech_leakage),
            "leakage_detected", FLt(wer, F(1, 2)))

\* the key _integrate_analyses writes into metrics['isolation_metrics']
IntegrateIsolation(iso_metrics) ==
    IF Has(iso_metrics, "attenuation_db") /\ Has(iso_metrics, "isolation_efficiency")
    THEN LET attenuation_norm ==
                PyMin(FDiv(iso_metrics.attenuation_db, F(60, 1)), F(1, 1))
             efficiency_norm == iso_metrics.isolation_efficiency
         IN  Put(iso_metrics, "combined_isolation_score",
                 FMul(FAdd(FMul(attenuation_norm, F(6, 10)),
                           FMul(efficiency_norm, F(4, 10))),
                      F(100, 1)))
    ELSE iso_metrics

\* `if isolation_assessment and 'isolation_metrics' in isolation_assessment`
HasIsolationMetrics(assessment) ==
    assessment # EmptyDict /\ Has(assessment, "isolation_metrics")

\* the dict _integrate_analyses returns
IntegrateAnalysesResult(audio, speech, assessment) ==
    LET basic == IF Has(audio, "level_comparison")
                 THEN IntegrateBasic(audio.basic_metrics, audio.level_comparison)
                 ELSE audio.basic_metrics
        recognition == IF Has(speech, "comparison")
                       THEN IntegrateRecognition(speech.comparison)
                       ELSE EmptyDict
        isolation_metrics == IF HasIsolationMetrics(assessment)
                             THEN IntegrateIsolation(assessment.isolation_metrics)
                             ELSE EmptyDict
        metrics == [basic |-> basic, recognition |-> recognition,
                    isolation_metrics |-> isolation_metrics,
                    composite_scores |-> EmptyDict]
    IN  [metrics EXCEPT !.composite_scores = CalculateCompositeScores(metrics)]

\* metrics['basic'], metrics['recognition'] and metrics['isolation_metrics'] are the
\* very dicts audio_analysis['basic_metrics'], speech_analysis['comparison'] and
\* isolation_assessment['isolation_metrics']: what _integrate_analyses writes into
\* the former shows in the latter.  An exception raised at its start leaves the
\* function before it wrote anything; analyze_with_audio_analysis catches it and
\* falls back to _create_basic_metrics.
IntegrateAnalyses ==
    /\ pc = "integrate"
    /\ \E raises \in BOOLEAN :
          IF raises
          THEN /\ pc' = "basic_metrics"
               /\ stages' = Append(stages, "SCORING_FAILED")
               /\ UNCHANGED <<audio_analysis, speech_analysis, isolation_assessment,
                              detailed_metrics>>
          ELSE LET m == IntegrateAnalysesResult(audio_analysis, speech_analysis,
                                                isolation_assessment)
               IN  /\ detailed_metrics' = m
                   /\ audio_analysis' = [audio_analysis EXCEPT !.basic_metrics = m.basic]
                   /\ speech_analysis' =
                         [speech_analysis EXCEPT !.comparison = m.recognition]
                   /\ isolation_assessment' =
                         IF HasIsolationMetrics(isolation_assessment)
                         THEN [isolation_assessment
                                 EXCEPT !.isolation_metrics = m.isolation_metrics]
                         ELSE isolation_assessment
                   /\ stages' = Append(stages, "SCORED")
                   /\ pc' = "overall_assessment"
    /\ UNCHANGED <<call, engine_vars, recorder_vars, inputs, report, outcome>>

----------------------------------------------------------------------------
(* _create_basic_metrics *)

CreateBasicMetricsResult(audio) ==
    LET attenuation == Get(audio.level_comparison, "attenuation_db", F(0, 1))
        quality == IF FGe(attenuation, F(45, 1)) THEN "excellent"
                   ELSE IF FGe(attenuation, F(35, 1)) THEN "good"
                   ELSE IF FGe(attenuation, F(25, 1)) THEN "satisfactory"
                   ELSE "poor"
    IN  [basic |-> IF Has(audio, "level_comparison")
                   THEN Put(Put(audio.basic_metrics, "attenuation_db", attenuation),
                            "isolation_quality", quality)
                   ELSE audio.basic_metrics,
         recognition |-> [available |-> FALSE],
         isolation_metrics |-> [available |-> FALSE],
         composite_scores |-> EmptyDict]

----------------------------------------------------------------------------
(* _calculate_overall_assessment, _create_error_report *)

\* _get_recommendations_for_isolation (the texts are abbreviated)
GetRecommendationsForIsolation(basic, isolation_metrics) ==
    LET attenuation == Get(basic, "attenuation_db", F(0, 1))
        efficiency == Get(isolation_metrics, "isolation_efficiency", F(0, 1))
        words_lost == Get(isolation_metrics, "words_lost", F(0, 1))
        r1 == IF FLt(attenuation, F(30, 1))
              THEN <<"strengthen walls", "add absorbers", "seal windows and doors">>
              ELSE <<>>
        r2 == IF FLe(F(20, 1), attenuation) /\ FLt(attenuation, F(35, 1))
              THEN <<"install membranes", "add carpet">> ELSE <<>>
        r3 == IF FLt(efficiency, F(1, 2)) THEN <<"significant speech leakage">> ELSE <<>>
        r4 == IF FGt(words_lost, F(0, 1)) THEN <<"words leaked">> ELSE <<>>
        r5 == IF FGe(attenuation, F(40, 1)) /\ FGe(efficiency, F(7, 10))
              THEN <<"meets residential norms">> ELSE <<>>
        r6 == IF FGe(attenuation, F(50, 1)) THEN <<"meets conference room norms">>
              ELSE <<>>
        all == r1 \o r2 \o r3 \o r4 \o r5 \o r6
    IN  IF all = <<>> THEN <<"measure at more points", "consider an expert survey">>
        ELSE all

\* the verdict and the color from the attenuation bands
VerdictBand(attenuation) ==
    IF FGe(attenuation, F(50, 1)) THEN <<"EXCELLENT ISOLATION", "darkgreen">>
    ELSE IF FGe(attenuation, F(40, 1)) THEN <<"GOOD ISOLATION", "green">>
    ELSE IF FGe(attenuation, F(30, 1)) THEN <<"SATISFACTORY ISOLATION", "orange">>
    ELSE IF FGe(attenuation, F(20, 1)) THEN <<"WEAK ISOLATION", "red">>
    ELSE <<"INEFFECTIVE ISOLATION", "darkred">>

\* a reference check that counts as failed when it holds no decision
ReferenceProblemWithoutDecision(assessment) ==
    /\ assessment # EmptyDict
    /\ Has(assessment, "inside_reference_check")
    /\ ~Get(assessment.inside_reference_check, "valid", FALSE)

\* the reference check of the isolation assessment failed
ReferenceProblem(assessment) ==
    /\ assessment # EmptyDict
    /\ Has(assessment, "inside_reference_check")
    /\ ~Get(assessment.inside_reference_check, "valid", TRUE)

\* the dict returned by the except branch of _calculate_overall_assessment
OverallAssessmentError ==
    [verdict |-> <<"ANALYSIS ERROR">>,
     color |-> "red",
     summary |-> <<"error">>,
     recommendations |-> <<"check the input data", "check the audio files">>]

\* _calculate_overall_assessment; raises: an exception is raised inside its try
\* block.  The verdict is the sequence of its parts; the summary the sequence of
\* the parts joined with ", ".
CalculateOverallAssessment(detailed, assessment, raises) ==
    LET basic == Get(detailed, "basic", EmptyDict)
        isolation_metrics == Get(detailed, "isolation_metrics", EmptyDict)
        composite == Get(detailed, "composite_scores", EmptyDict)
        attenuation == Get(basic, "attenuation_db", F(0, 1))
        isolation_score == Get(composite, "total_score", F(0, 1))
        band == VerdictBand(attenuation)
        problem == ReferenceProblem(assessment)
        s1 == <<[label |-> "attenuation", value |-> attenuation]>>
        s2 == IF Has(isolation_metrics, "isolation_efficiency")
              THEN <<[label |-> "efficiency",
                      value |-> FMul(isolation_metrics.isolation_efficiency, F(100, 1))]>>
              ELSE <<>>
        s3 == IF Has(isolation_metrics, "words_lost")
                 /\ Has(isolation_metrics, "words_total")
                 /\ isolation_metrics.words_total > 0
              THEN <<[label |-> "words lost", value |-> isolation_metrics.words_lost]>>
              ELSE <<>>
    IN  IF raises THEN OverallAssessmentError
        ELSE [verdict |-> IF problem THEN <<band[1], "(REFERENCE PROBLEM)">>
                          ELSE <<band[1]>>,
              color |-> IF problem THEN "purple" ELSE band[2],
              quality |-> Get(basic, "isolation_quality", "unknown"),
              attenuation_db |-> attenuation,
              isolation_score |-> isolation_score,
              composite_grade |-> Get(composite, "grade", "N/A"),
              summary |-> s1 \o s2 \o s3,
              recommendations |->
                 GetRecommendationsForIsolation(basic, isolation_metrics),
              detailed_metrics_available |-> TRUE]

\* _create_error_report
CreateErrorReport(error_message) ==
    [analysis_type |-> "error",
     error |-> error_message,
     results |->
        [overall_assessment |->
            [verdict |-> <<"ANALYSIS ERROR">>,
             color |-> "red",
             quality |-> "unknown",
             recommendations |-> <<"check the audio files", "check for damaged files",
                                   "check the dependencies">>,
             summary |-> <<"error", error_message>>]]]

\* the analysis dict returned at the end of the try block
AnalysisReport(overall) ==
    [analysis_type |-> "room_isolation_assessment",
     reference_text |-> reference_text,
     results |->
        [audio_analysis |-> audio_analysis,
         speech_recognition |-> speech_analysis,
         detailed_metrics |-> detailed_metrics,
         overall_assessment |-> overall,
         isolation_assessment |-> isolation_assessment]]

\* a handler that logs the exception and raises it again
HandleCriticalErrorReraising(error_message) ==
    /\ report' = report
    /\ outcome' = "raised"
    /\ pc' = "done"

\* the outer `except Exception` of analyze_with_audio_analysis
HandleCriticalError(error_message) ==
    /\ report' = CreateErrorReport(error_message)
    /\ outcome' = "returned"
    /\ pc' = "done"

\* _create_basic_metrics runs when recognition is off or unavailable, or after
\* _integrate_analyses raised.  metrics['basic'] is audio_analysis['basic_metrics'].
\* An exception raised in it is not caught before the outer handler.
CreateBasicMetrics ==
    /\ pc = "basic_metrics"
    /\ \E raises \in BOOLEAN :
          IF raises
          THEN /\ HandleCriticalError("exception in _create_basic_metrics")
               /\ stages' = stages \o <<"BASIC_METRICS_FAILED", "ERROR">>
               /\ UNCHANGED <<audio_analysis, detailed_metrics>>
          ELSE LET m == CreateBasicMetricsResult(audio_analysis)
               IN  /\ detailed_metrics' = m
                   /\ audio_analysis' = [audio_analysis EXCEPT !.basic_metrics = m.basic]
                   /\ stages' = Append(stages, "BASIC_METRICS")
                   /\ pc' = "overall_assessment"
                   /\ UNCHANGED <<report, outcome>>
    /\ UNCHANGED <<call, engine_vars, recorder_vars,
                   inputs, speech_analysis, isolation_assessment>>

\* step 5 of analyze_with_audio_analysis and its return
FinalAssessment ==
    /\ pc = "overall_assessment"
    /\ \E raises \in BOOLEAN :
          /\ report' = AnalysisReport(
                          CalculateOverallAssessment(detailed_metrics,
                                                     isolation_assessment, raises))
          /\ stages' = stages \o (IF raises THEN <<"FINAL_FAILED", "ERROR">>
                                              ELSE <<"FINALIZED">>)
    /\ outcome' = "returned"
    /\ pc' = "done"
    /\ UNCHANGED <<call, engine_vars, recorder_vars,
                   inputs, audio_analysis, speech_analysis, isolation_assessment,
                   detailed_metrics>>

Next ==
    \/ Call
    \/ PerformAudioAnalysis
    \/ PerformSpeechRecognition
    \/ AssessRoomIsolation
    \/ IntegrateAnalyses
    \/ CreateBasicMetrics
    \/ FinalAssessment

Spec == Init /\ [][Next]_vars

----------------------------------------------------------------------------
(* main.py: the text match and the spoofing check of recognize_speech *)

\* text.replace('ё', 'е'): "yo" stands for the letter ё, "ye" for the letter е
FoldYo(text) == [i \in 1..Len(text) |-> IF text[i] = "yo" THEN "ye" ELSE text[i]]

\* ' '.join(words)
RECURSIVE JoinWords(_)
JoinWords(words) ==
    IF words = <<>> THEN <<>>
    ELSE IF Len(words) = 1 THEN words[1]
    ELSE words[1] \o <<" ">> \o JoinWords(Tail(words))

\* clean_text of _calculate_text_match
CleanText(text) == JoinWords(Split(StripPunctuation(FoldYo(Lower(text)))))

\* AdvancedSoundTester._calculate_text_match
CalculateTextMatch(recognized, reference) ==
    IF recognized = <<>> \/ reference = <<>> THEN F(0, 1)
    ELSE LET clean_rec == CleanText(recognized)
             clean_ref == CleanText(reference)
             similarity == SequenceMatcherRatio(clean_rec, clean_ref)
             ref_words == {Split(clean_ref)[i] : i \in 1..Len(Split(clean_ref))}
             rec_words == {Split(clean_rec)[i] : i \in 1..Len(Split(clean_rec))}
             word_match == F(Cardinality(ref_words \cap rec_words),
                             IF ref_words = {} THEN 1 ELSE Cardinality(ref_words))
             final_score == IF ref_words # {}
                            THEN FAdd(FMul(similarity, F(7, 10)),
                                      FMul(word_match, F(3, 10)))
                            ELSE similarity
         IN  PyMin(PyMax(final_score, F(0, 1)), F(1, 1))

\* the spoofing_result recognize_speech builds from the inside recognition
SpoofingResult(inside_result, reference) ==
    LET match_score == CalculateTextMatch(inside_result.text, reference)
    IN  [performed |-> TRUE,
         success |-> TRUE,
         reference_text |-> reference,
         recognized_text |-> inside_result.text,
         match_score |-> match_score,
         match_percent |-> FMul(match_score, F(100, 1)),
         passed |-> FGe(match_score, F(8, 10)),
         threshold |-> F(8, 10),
         confidence |-> inside_result.confidence]

----------------------------------------------------------------------------
(* The functions called directly, one call at a time, on arguments drawn from *)
(* bounded sets                                                              *)

TextABXX == <<"a", " ", "b", "x", "x">>

TextYo == <<"yo", "x">>

TextYe == <<"ye", "x">>

TextDot == <<".">>

Texts == {NoText, TextABC, TextC, TextX, TextABCPunct, TextABXX, TextYo, TextYe,
          TextDot}

Confidences == {F(0, 1), F(2, 5), F(1, 2), F(9, 10)}

WordABC == <<"a", "b", "c">>

WordABCD == <<"a", "b", "c", "d">>

WordABCX == <<"a", "b", "c", "x">>

WordX == <<"x">>

Words == {WordABC, WordABCD, WordABCX, WordX}

\* the longest word list passed to _count_matching_words
MaxWords == 2

WordLists == UNION {[1..n -> Words] : n \in 0..MaxWords}

\* the scores passed to _score_to_grade: the whole numbers up to MaxScore and the
\* values one thousandth below the grade boundaries
MaxScore == 100

Scores == {F(n, 1) : n \in 0..MaxScore}
          \cup {F(1000 * n - 1, 1000) : n \in {40, 60, 75, 90}}

CallCalculateTextSimilarity ==
    /\ call = NoCall
    /\ \E text1 \in Texts, text2 \in Texts :
          call' = [fn |-> "_calculate_text_similarity", text1 |-> text1, text2 |-> text2,
                   result |-> CalculateTextSimilarity(text1, text2)]
    /\ UNCHANGED <<analysis_vars, engine_vars, recorder_vars>>

CallCalculateTextMatch ==
    /\ call = NoCall
    /\ \E recognized \in Texts, reference \in Texts :
          call' = [fn |-> "_calculate_text_match", text1 |-> recognized,
                   text2 |-> reference,
                   result |-> CalculateTextMatch(recognized, reference)]
    /\ UNCHANGED <<analysis_vars, engine_vars, recorder_vars>>

CallCountMatchingWords ==
    /\ call = NoCall
    /\ \E ref_words \in WordLists, recognized_words \in WordLists :
          call' = [fn |-> "_count_matching_words", ref_words |-> ref_words,
                   recognized_words |-> recognized_words,
                   result |-> CountMatchingWords(ref_words, recognized_words)]
    /\ UNCHANGED <<analysis_vars, engine_vars, recorder_vars>>

CallValidateSpokenText ==
    /\ call = NoCall
    /\ \E recognized \in Texts, reference \in Texts, confidence \in Confidences :
          call' = [fn |-> "_validate_spoken_text", recognized |-> recognized,
                   reference |-> reference, confidence |-> confidence,
                   result |-> ValidateSpokenText(recognized, reference, confidence)]
    /\ UNCHANGED <<analysis_vars, engine_vars, recorder_vars>>

\* the spoofing check of recognize_speech: it runs when a reference text is known
RecognizeSpeechSpoofingCheck ==
    /\ call = NoCall
    /\ \E recognized \in Texts, reference \in Texts \ {NoText},
          confidence \in Confidences :
          call' = [fn |-> "recognize_speech", recognized |-> recognized,
                   reference |-> reference, confidence |-> confidence,
                   result |-> SpoofingResult([text |-> recognized,
                                              confidence |-> confidence], reference)]
    /\ UNCHANGED <<analysis_vars, engine_vars, recorder_vars>>

CallScoreToGrade ==
    /\ call = NoCall
    /\ \E score \in Scores :
          call' = [fn |-> "_score_to_grade", score |-> score,
                   result |-> ScoreToGrade(score)]
    /\ UNCHANGED <<analysis_vars, engine_vars, recorder_vars>>

\* the caller has taken the result
ReturnFromCall ==
    /\ call # NoCall
    /\ call' = NoCall
    /\ UNCHANGED <<analysis_vars, engine_vars, recorder_vars>>

NextFunctions ==
    \/ CallCalculateTextSimilarity
    \/ CallCalculateTextMatch
    \/ CallCountMatchingWords
    \/ CallValidateSpokenText
    \/ RecognizeSpeechSpoofingCheck
    \/ CallScoreToGrade
    \/ ReturnFromCall

SpecFunctions == Init /\ [][NextFunctions]_vars

----------------------------------------------------------------------------
(* speech_recognizer.py, ai_analyzer.py, experiment_manager.py, main.py: the
   selection of the recognition engine, the recognition of a pair of recordings
   and the experiment over several engines *)

\* a name that is no member of RecognitionEngine
UnknownEngine == "unknown-engine"

EngineNames == Engines \cup {UnknownEngine}

MaxEnginesToTest == 2

MaxPairs == 1

\* config.engines_to_test
EngineLists ==
    UNION {[1..n -> EngineNames] : n \in 1..MaxEnginesToTest}

\* the state of a call of analyze_with_audio_analysis but for the recognizer's engine
analysis_state == <<pc, recognizer, outside_audio, inside_audio, reference_text,
                    enable_speech_recognition, audio_analysis, speech_analysis,
                    isolation_assessment, detailed_metrics, report, outcome, stages>>

\* MultiEngineSpeechRecognizer.set_engine with _load_whisper_engine and
\* _load_vosk_engine: False when the model is not on disk or its loading raises,
\* otherwise the model is registered and the engine becomes the current one
SetEngine(engine, load_raises) ==
    IF engine \notin installed \/ load_raises
    THEN [current_engine |-> current_engine, engines |-> engines, result |-> FALSE]
    ELSE [current_engine |-> engine, engines |-> engines \cup {engine},
          result |-> TRUE]

\* EnhancedSoundIsolationAnalyzer.set_recognition_engine: False without a
\* recognizer and for a name RecognitionEngine does not know
SetRecognitionEngine(engine_name, load_raises) ==
    IF recognizer /\ engine_name \in Engines
    THEN SetEngine(engine_name, load_raises)
    ELSE [current_engine |-> current_engine, engines |-> engines, result |-> FALSE]

\* the record of a call of set_engine on the analyzer's recognizer
SetEngineCall(engine_name, r) ==
    IF recognizer /\ engine_name \in Engines
    THEN [class |-> "MultiEngineSpeechRecognizer", engine |-> engine_name,
          result |-> r.result,
          before |-> [current_engine |-> current_engine, engines |-> engines],
          after |-> [current_engine |-> r.current_engine, engines |-> r.engines]]
    ELSE set_engine_call

\* the user selects an engine: set_recognition_engine is called from the thread of
\* the user interface
CallSetRecognitionEngine ==
    /\ \E engine_name \in EngineNames, load_raises \in BOOLEAN :
          LET r == SetRecognitionEngine(engine_name, load_raises)
          IN  /\ current_engine' = r.current_engine
              /\ engines' = r.engines
              /\ set_engine_call' = SetEngineCall(engine_name, r)
    /\ UNCHANGED <<analysis_state, call, installed, stub_current_engine, pair_analysis,
                   experiment, recorder_vars>>

\* RecognizerStub.set_engine
StubSetEngine ==
    /\ \E engine \in Engines :
          /\ stub_current_engine' = engine
          /\ set_engine_call' =
                [class |-> "RecognizerStub", engine |-> engine, result |-> FALSE,
                 before |-> [current_engine |-> stub_current_engine, engines |-> {}],
                 after |-> [current_engine |-> engine, engines |-> {}]]
    /\ UNCHANGED <<analysis_vars, call, engines, installed, pair_analysis, experiment,
                   recorder_vars>>

\* _perform_speech_recognition up to the first transcription: engine_info is read,
\* analyze_pair raises when no engine is selected
BeginPairAnalysis(by) ==
    LET blank == [pc |-> "done", by |-> by, engine_info |-> "None",
                  outside_engine |-> "None", inside_engine |-> "None",
                  engine |-> "None", error |-> "none"]
    IN  IF ~recognizer THEN [blank EXCEPT !.error = "recognizer unavailable"]
        ELSE IF current_engine = "None"
        THEN [blank EXCEPT !.error = "no engine selected"]
        ELSE [blank EXCEPT !.pc = "outside", !.engine_info = current_engine]

\* an assessment is started from the user interface
CallerBeginsPairAnalysis ==
    /\ pair_analysis.pc = "idle"
    /\ experiment.pc # "pairs"
    /\ pair_analysis' = BeginPairAnalysis("caller")
    /\ UNCHANGED <<analysis_vars, call, engines, installed, stub_current_engine,
                   set_engine_call, experiment, recorder_vars>>

\* analyze_pair: outside_result = self.transcribe(outside_path), by the model of the
\* engine that is current at this moment
TranscribeOutside ==
    /\ pair_analysis.pc = "outside"
    /\ pair_analysis' = [pair_analysis EXCEPT !.pc = "inside",
                                              !.outside_engine = current_engine]
    /\ UNCHANGED <<analysis_vars, call, engines, installed, stub_current_engine,
                   set_engine_call, experiment, recorder_vars>>

\* analyze_pair: inside_result = self.transcribe(inside_path)
TranscribeInside ==
    /\ pair_analysis.pc = "inside"
    /\ pair_analysis' = [pair_analysis EXCEPT !.pc = "label",
                                              !.inside_engine = current_engine]
    /\ UNCHANGED <<analysis_vars, call, engines, installed, stub_current_engine,
                   set_engine_call, experiment, recorder_vars>>

\* analyze_pair: 'engine': self.current_engine.value, and the return
LabelPairAnalysis ==
    /\ pair_analysis.pc = "label"
    /\ pair_analysis' = [pair_analysis EXCEPT !.pc = "done", !.engine = current_engine]
    /\ UNCHANGED <<analysis_vars, call, engines, installed, stub_current_engine,
                   set_engine_call, experiment, recorder_vars>>

\* the caller takes the result of the assessment it started
CallerTakesPairAnalysis ==
    /\ pair_analysis.pc = "done"
    /\ pair_analysis.by = "caller"
    /\ pair_analysis' = NoPairAnalysis
    /\ UNCHANGED <<analysis_vars, call, engines, installed, stub_current_engine,
                   set_engine_call, experiment, recorder_vars>>

\* run_experiment is called: all_results = []
RunExperiment ==
    /\ experiment.pc \in {"idle", "finished"}
    /\ \E engines_to_test \in EngineLists, audio_pairs \in 1..MaxPairs :
          experiment' = [pc |-> "set_engine", engines_to_test |-> engines_to_test,
                         audio_pairs |-> audio_pairs, engine |-> "None", pair |-> 0,
                         all_results |-> <<>>]
    /\ UNCHANGED <<analysis_vars, call, engines, installed, stub_current_engine,
                   set_engine_call, pair_analysis, recorder_vars>>

\* for engine in config.engines_to_test: self.analyzer.set_recognition_engine(engine),
\* whose result is not looked at
ExperimentSetEngine ==
    /\ experiment.pc = "set_engine"
    /\ experiment.engines_to_test # <<>>
    /\ \E load_raises \in BOOLEAN :
          LET engine == Head(experiment.engines_to_test)
              r == SetRecognitionEngine(engine, load_raises)
          IN  /\ current_engine' = r.current_engine
              /\ engines' = r.engines
              /\ set_engine_call' = SetEngineCall(engine, r)
              /\ experiment' = [experiment EXCEPT !.pc = "pairs", !.engine = engine,
                                                  !.pair = 1]
    /\ UNCHANGED <<analysis_state, call, installed, stub_current_engine, pair_analysis,
                   recorder_vars>>

\* a pair whose files are missing is skipped
ExperimentSkipsPair ==
    /\ experiment.pc = "pairs"
    /\ experiment.pair <= experiment.audio_pairs
    /\ experiment' = [experiment EXCEPT !.pair = @ + 1]
    /\ UNCHANGED <<analysis_vars, call, engines, installed, stub_current_engine,
                   set_engine_call, pair_analysis, recorder_vars>>

\* analysis = self.analyzer.analyze_with_audio_analysis(...) of the next pair
ExperimentBeginsPairAnalysis ==
    /\ experiment.pc = "pairs"
    /\ experiment.pair <= experiment.audio_pairs
    /\ pair_analysis.pc = "idle"
    /\ pair_analysis' = BeginPairAnalysis("experiment")
    /\ experiment' = [experiment EXCEPT !.pc = "analyzing"]
    /\ UNCHANGED <<analysis_vars, call, engines, installed, stub_current_engine,
                   set_engine_call, recorder_vars>>

\* analysis['experiment_info'] = {'engine': engine, ...}; all_results.append(analysis)
ExperimentRecordsAnalysis ==
    /\ experiment.pc = "analyzing"
    /\ pair_analysis.pc = "done"
    /\ pair_analysis.by = "experiment"
    /\ experiment' =
          [experiment EXCEPT
              !.pc = "pairs", !.pair = @ + 1,
              !.all_results =
                  Append(@, [engine |-> experiment.engine,
                             outside_engine |-> pair_analysis.outside_engine,
                             inside_engine |-> pair_analysis.inside_engine])]
    /\ pair_analysis' = NoPairAnalysis
    /\ UNCHANGED <<analysis_vars, call, engines, installed, stub_current_engine,
                   set_engine_call, recorder_vars>>

\* the pairs of an engine are done: the next engine
ExperimentNextEngine ==
    /\ experiment.pc = "pairs"
    /\ experiment.pair > experiment.audio_pairs
    /\ experiment' = [experiment EXCEPT !.pc = "set_engine",
                                        !.engines_to_test = Tail(@)]
    /\ UNCHANGED <<analysis_vars, call, engines, installed, stub_current_engine,
                   set_engine_call, pair_analysis, recorder_vars>>

\* the engines are done: return all_results
ExperimentReturns ==
    /\ experiment.pc = "set_engine"
    /\ experiment.engines_to_test = <<>>
    /\ experiment' = [experiment EXCEPT !.pc = "finished"]
    /\ UNCHANGED <<analysis_vars, call, engines, installed, stub_current_engine,
                   set_engine_call, pair_analysis, recorder_vars>>

\* the analyzer, its recognizer and the experiment manager as constructed, with
\* any set of models on disk
InitEngines ==
    /\ pc = "idle"
    /\ recognizer \in BOOLEAN
    /\ current_engine = "None"
    /\ outside_audio = [kind |-> "missing", rms |-> AmpNaN]
    /\ inside_audio = [kind |-> "missing", rms |-> AmpNaN]
    /\ reference_text = NoText
    /\ enable_speech_recognition = FALSE
    /\ audio_analysis = EmptyDict
    /\ speech_analysis = EmptyDict
    /\ isolation_assessment = EmptyDict
    /\ detailed_metrics = EmptyDict
    /\ report = EmptyDict
    /\ outcome = "idle"
    /\ stages = <<>>
    /\ call = NoCall
    /\ engines = {}
    /\ installed \in SUBSET Engines
    /\ stub_current_engine = "None"
    /\ set_engine_call = NoSetEngineCall
    /\ pair_analysis = NoPairAnalysis
    /\ experiment = NoExperiment
    /\ RecorderConstructed

NextEngines ==
    \/ CallSetRecognitionEngine
    \/ StubSetEngine
    \/ CallerBeginsPairAnalysis
    \/ TranscribeOutside
    \/ TranscribeInside
    \/ LabelPairAnalysis
    \/ CallerTakesPairAnalysis
    \/ RunExperiment
    \/ ExperimentSetEngine
    \/ ExperimentSkipsPair
    \/ ExperimentBeginsPairAnalysis
    \/ ExperimentRecordsAnalysis
    \/ ExperimentNextEngine
    \/ ExperimentReturns

SpecEngines == InitEngines /\ [][NextEngines]_vars

----------------------------------------------------------------------------
(* audio_core.py: AudioCore records two channels.  start_recording runs on the
   starter thread, stop_recording on the thread of the user interface, on the
   thread of the timer and inside start_recording; the callbacks of the open
   streams run on the threads of the audio library *)

\* the duration argument of start_recording, in seconds
Durations == {0, 5}

\* the reference_text argument of start_recording
Phrases == {"None", "phrase"}

\* the test_name argument of the i-th call of start_recording
TestName(i) == <<"test", i>>

\* everything but the recorder
other_vars == <<analysis_vars, call, engine_vars>>

\* the fields of the recorder a step of one thread leaves alone
Goto(t, position) == thread' = [thread EXCEPT ![t] = position]

\* where a thread goes on when its call of stop_recording returns or raises
AfterStop(t, raised) ==
    IF t = Starter THEN (IF raised THEN "idle" ELSE "set_recording")
    ELSE IF t = Gui THEN "idle"
    ELSE "finished"

\* start_recording is called: self.reference_text = reference_text
CallStartRecording ==
    /\ thread[Starter] = "idle"
    /\ recording < MaxRecordings
    /\ \E duration \in Durations, phrase \in Phrases :
          /\ start_call' = [recording |-> recording + 1,
                            test_name |-> TestName(recording + 1),
                            reference_text |-> phrase, duration |-> duration,
                            success |-> TRUE, opened |-> {}, result |-> "running"]
          /\ core_reference_text' = phrase
    /\ recording' = recording + 1
    /\ started' = Append(started, [test_name |-> start_call'.test_name,
                                   reference_text |-> start_call'.reference_text])
    /\ Goto(Starter, "check_recording")
    /\ UNCHANGED <<other_vars, is_recording, streams, audio_data, current_test_name,
                   record_duration, stop_timer, data_recording, save_count, saved>>

\* if self.is_recording: self.stop_recording()
StopPreviousRecording ==
    /\ thread[Starter] = "check_recording"
    /\ Goto(Starter, IF is_recording THEN "stop_recording" ELSE "set_recording")
    /\ UNCHANGED <<other_vars, is_recording, streams, audio_data, current_test_name,
                   record_duration, core_reference_text, stop_timer, start_call,
                   recording, started, data_recording, save_count, saved>>

\* with self.lock: self.audio_data = {'outside': [], 'inside': []};
\* self.current_test_name = test_name; self.record_duration = duration;
\* self.is_recording = True
SetRecording ==
    /\ thread[Starter] = "set_recording"
    /\ audio_data' = [channel \in Channels |-> 0]
    /\ data_recording' = start_call.recording
    /\ current_test_name' = start_call.test_name
    /\ record_duration' = start_call.duration
    /\ is_recording' = TRUE
    /\ Goto(Starter, "open_streams")
    /\ UNCHANGED <<other_vars, streams, core_reference_text, stop_timer, start_call,
                   recording, started, save_count, saved>>

\* start_outside and start_inside, each on a thread of its own: the stream is
\* opened and registered, or self.p.open raises and success becomes False
OpenStream ==
    /\ thread[Starter] = "open_streams"
    /\ \E channel \in Channels \ start_call.opened, opens \in BOOLEAN :
          /\ streams' = IF opens THEN streams \cup {channel} ELSE streams
          /\ start_call' = [start_call EXCEPT !.opened = @ \cup {channel},
                                              !.success = @ /\ opens]
    /\ UNCHANGED <<other_vars, is_recording, audio_data, current_test_name,
                   record_duration, core_reference_text, stop_timer, thread, recording,
                   started, data_recording, save_count, saved>>

\* a start_recording that starts no timer
StartTimerNever ==
    /\ thread[Starter] = "open_streams"
    /\ start_call.opened = Channels
    /\ start_call' = [start_call EXCEPT !.result = IF start_call.success THEN "True"
                                                        ELSE "False"]
    /\ thread' = [thread EXCEPT ![Starter] = "idle"]
    /\ UNCHANGED <<other_vars, is_recording, streams, audio_data, current_test_name,
                   record_duration, core_reference_text, stop_timer, recording, started,
                   data_recording, save_count, saved>>

\* both threads are joined; if success and duration > 0 the timer is created and
\* started; return success
StartTimer ==
    /\ thread[Starter] = "open_streams"
    /\ start_call.opened = Channels
    /\ start_call' = [start_call EXCEPT !.result = IF start_call.success THEN "True"
                                                        ELSE "False"]
    /\ IF start_call.success /\ start_call.duration > 0
       THEN /\ stop_timer' = start_call.recording
            /\ thread' = [thread EXCEPT ![Starter] = "idle",
                                        ![Timer(start_call.recording)] = "waiting"]
       ELSE /\ stop_timer' = stop_timer
            /\ thread' = [thread EXCEPT ![Starter] = "idle"]
    /\ UNCHANGED <<other_vars, is_recording, streams, audio_data, current_test_name,
                   record_duration, core_reference_text, recording, started,
                   data_recording, save_count, saved>>

\* _audio_callback of an open stream: if self.is_recording, the chunk is appended
\* under the lock
AudioCallback ==
    /\ \E channel \in streams :
          /\ is_recording
          /\ audio_data[channel] < MaxChunks
          /\ audio_data' = [audio_data EXCEPT ![channel] = @ + 1]
    /\ UNCHANGED <<other_vars, is_recording, streams, current_test_name,
                   record_duration, core_reference_text, stop_timer, thread, start_call,
                   recording, started, data_recording, save_count, saved>>

\* the interval of the timer has passed before it was cancelled
TimerFires(i) ==
    /\ thread[Timer(i)] = "waiting"
    /\ Goto(Timer(i), "stop_by_timer")
    /\ UNCHANGED <<other_vars, is_recording, streams, audio_data, current_test_name,
                   record_duration, core_reference_text, stop_timer, start_call,
                   recording, started, data_recording, save_count, saved>>

\* _stop_by_timer: if self.is_recording: self.stop_recording()
StopByTimer(i) ==
    /\ thread[Timer(i)] = "stop_by_timer"
    /\ Goto(Timer(i), IF is_recording THEN "stop_recording" ELSE "finished")
    /\ UNCHANGED <<other_vars, is_recording, streams, audio_data, current_test_name,
                   record_duration, core_reference_text, stop_timer, start_call,
                   recording, started, data_recording, save_count, saved>>

\* the user interface calls stop_recording: the stop button, _update_timer when
\* the time is up, cleanup when the window is closed
CallStopRecording ==
    /\ thread[Gui] = "idle"
    /\ \A i \in DOMAIN save_count : save_count[i] < MaxSaves
    /\ Goto(Gui, "stop_recording")
    /\ UNCHANGED <<other_vars, is_recording, streams, audio_data, current_test_name,
                   record_duration, core_reference_text, stop_timer, start_call,
                   recording, started, data_recording, save_count, saved>>

\* stop_recording: self.is_recording = False
ClearRecording(t) ==
    /\ thread[t] = "stop_recording"
    /\ is_recording' = FALSE
    /\ Goto(t, "cancel_timer")
    /\ UNCHANGED <<other_vars, streams, audio_data, current_test_name, record_duration,
                   core_reference_text, stop_timer, start_call, recording, started,
                   data_recording, save_count, saved>>

\* stop_recording: self.stop_timer.cancel(), which stops a timer that still waits
CancelTimer(t) ==
    /\ thread[t] = "cancel_timer"
    /\ thread' = [u \in Threads |->
                    IF u = t THEN "close_streams"
                    ELSE IF stop_timer # 0 /\ u = Timer(stop_timer)
                            /\ thread[u] = "waiting"
                    THEN "cancelled"
                    ELSE thread[u]]
    /\ UNCHANGED <<other_vars, is_recording, streams, audio_data, current_test_name,
                   record_duration, core_reference_text, stop_timer, start_call,
                   recording, started, data_recording, save_count, saved>>

\* stop_recording: every stream of self.streams is stopped and closed,
\* self.streams.clear()
CloseStreams(t) ==
    /\ thread[t] = "close_streams"
    /\ streams' = {}
    /\ Goto(t, "save_recordings")
    /\ UNCHANGED <<other_vars, is_recording, audio_data, current_test_name,
                   record_duration, core_reference_text, stop_timer, start_call,
                   recording, started, data_recording, save_count, saved>>

\* what _save_recordings and _save_test_metadata write: the files are named after
\* self.current_test_name, the metadata carry self.current_test_name and
\* self.reference_text.  _save_test_metadata raises when the outside channel has
\* no data (saved_files['outside'] is None), before it writes.
SavedFiles ==
    [recording |-> data_recording,
     test_name |-> current_test_name,
     reference_text |-> IF audio_data["outside"] > 0 THEN core_reference_text
                        ELSE "not written"]

\* stop_recording: if a channel has data, _save_recordings() under the lock; the
\* statistics; return saved_files
SaveRecordings(t) ==
    /\ thread[t] = "save_recordings"
    /\ IF \E channel \in Channels : audio_data[channel] > 0
       THEN /\ saved' = saved \cup {SavedFiles}
            /\ save_count' = [save_count EXCEPT ![data_recording] = @ + 1]
            /\ Goto(t, AfterStop(t, audio_data["outside"] = 0))
            /\ start_call' = IF t = Starter /\ audio_data["outside"] = 0
                             THEN [start_call EXCEPT !.result = "raised"]
                             ELSE start_call
       ELSE /\ Goto(t, AfterStop(t, FALSE))
            /\ UNCHANGED <<saved, save_count, start_call>>
    /\ UNCHANGED <<other_vars, is_recording, streams, audio_data, current_test_name,
                   record_duration, core_reference_text, stop_timer, recording, started,
                   data_recording>>

\* a step of stop_recording on thread t
StopRecording(t) ==
    \/ ClearRecording(t)
    \/ CancelTimer(t)
    \/ CloseStreams(t)
    \/ SaveRecordings(t)

\* a step of the thread of the timer of recording i
TimerThread(i) ==
    \/ TimerFires(i)
    \/ StopByTimer(i)
    \/ StopRecording(Timer(i))

\* the analyzer, the recognizer and the recorder as constructed
InitRecorder ==
    /\ pc = "idle"
    /\ recognizer = FALSE
    /\ current_engine = "None"
    /\ outside_audio = [kind |-> "missing", rms |-> AmpNaN]
    /\ inside_audio = [kind |-> "missing", rms |-> AmpNaN]
    /\ reference_text = NoText
    /\ enable_speech_recognition = FALSE
    /\ audio_analysis = EmptyDict
    /\ speech_analysis = EmptyDict
    /\ isolation_assessment = EmptyDict
    /\ detailed_metrics = EmptyDict
    /\ report = EmptyDict
    /\ outcome = "idle"
    /\ stages = <<>>
    /\ call = NoCall
    /\ EnginesConstructed
    /\ RecorderConstructed

\* the recorder used from the user interface: recordings are started and stopped
\* at any moment
NextRecorder ==
    \/ CallStartRecording
    \/ StopPreviousRecording
    \/ SetRecording
    \/ OpenStream
    \/ StartTimer
    \/ AudioCallback
    \/ CallStopRecording
    \/ \E t \in Threads : ClearRecording(t)
    \/ \E t \in Threads : CancelTimer(t)
    \/ \E t \in Threads : CloseStreams(t)
    \/ \E t \in Threads : SaveRecordings(t)
    \/ \E i \in 1..MaxRecordings : TimerFires(i)
    \/ \E i \in 1..MaxRecordings : StopByTimer(i)

SpecRecorder == InitRecorder /\ [][NextRecorder]_vars

\* start_recording is called on a recorder whose timers have all run or been
\* cancelled, as test_audio.py does
CallStartRecordingAlone ==
    /\ \A i \in 1..MaxRecordings :
          thread[Timer(i)] \in {"not created", "finished", "cancelled"}
    /\ CallStartRecording

\* the recorder left to itself after start_recording, as in test_audio.py: the
\* caller never calls stop_recording
NextAutoStop ==
    \/ CallStartRecordingAlone
    \/ StopPreviousRecording
    \/ SetRecording
    \/ OpenStream
    \/ StartTimer
    \/ AudioCallback
    \/ \E t \in Threads : ClearRecording(t)
    \/ \E t \in Threads : CancelTimer(t)
    \/ \E t \in Threads : CloseStreams(t)
    \/ \E t \in Threads : SaveRecordings(t)
    \/ \E i \in 1..MaxRecordings : TimerFires(i)
    \/ \E i \in 1..MaxRecordings : StopByTimer(i)

\* a started threading.Timer waits for its interval and runs its function: the
\* thread of each timer keeps taking steps
SpecAutoStop ==
    /\ InitRecorder
    /\ [][NextAutoStop]_vars
    /\ \A i \in 1..MaxRecordings : WF_vars(TimerThread(i))

----------------------------------------------------------------------------
(* Properties *)

\* the elements of a sequence
Range(seq) == {seq[i] : i \in 1..Len(seq)}

Returned == pc = "done" /\ outcome = "returned"

\* the overall assessment the caller reads from the report
Overall == Get(Get(report, "results", EmptyDict), "overall_assessment", EmptyDict)

\* the isolation metrics of the isolation assessment
IsoMetrics == Get(isolation_assessment, "isolation_metrics", EmptyDict)

\* the level result of the audio analysis
LevelData == Get(audio_analysis, "level_comparison", EmptyDict)

ErrorVerdict == <<"ANALYSIS ERROR">>

\* C1: a call of analyze_with_audio_analysis never raises past its boundary,
\* whichever stage fails: no exception leaves the call, and when the call is over
\* it has returned a report holding an overall assessment with a verdict.
NeverRaisesAndReportsVerdict ==
    /\ outcome # "raised"
    /\ pc = "done" =>
          /\ outcome = "returned"
          /\ Has(report, "results")
          /\ Has(report.results, "overall_assessment")
          /\ Has(report.results.overall_assessment, "verdict")
          /\ report.results.overall_assessment.verdict # <<>>

\* C1 witness: scoring raised, then the fallback raised too, and the call still
\* returned the error report with its verdict
ErrorReportAfterTwoFailures ==
    /\ Returned
    /\ "SCORING_FAILED" \in Range(stages)
    /\ "BASIC_METRICS_FAILED" \in Range(stages)
    /\ report.analysis_type = "error"
    /\ Overall.verdict = ErrorVerdict

\* C2: when an audio file is absent, the assessment returned carries the error
\* verdict and a diagnostic summary, not a regular isolation verdict computed from
\* placeholder levels.
MissingAudioGivesErrorAssessment ==
    (Returned /\ (inside_audio.kind = "missing" \/ outside_audio.kind = "missing"))
    => /\ Overall.verdict = ErrorVerdict
       /\ Overall.summary # <<>>
       /\ Overall.summary[1] = "error"

\* the place of a stage in the order of the pipeline
StageRank(stage) ==
    CASE stage = "CREATED" -> 0
      [] stage \in {"LEVEL_ANALYZED", "LEVEL_FAILED"} -> 1
      [] stage \in {"TEXT_ANALYZED", "TEXT_FAILED"} -> 2
      [] stage \in {"ISOLATION_ASSESSED", "ISOLATION_FAILED"} -> 3
      [] stage \in {"SCORED", "SCORING_FAILED"} -> 4
      [] stage \in {"BASIC_METRICS", "BASIC_METRICS_FAILED"} -> 5
      [] stage \in {"FINALIZED", "FINAL_FAILED"} -> 6
      [] OTHER -> 7

FailedStages == {"LEVEL_FAILED", "TEXT_FAILED", "ISOLATION_FAILED", "SCORING_FAILED",
                 "BASIC_METRICS_FAILED", "FINAL_FAILED"}

\* the stages run so far are in pipeline order, starting with CREATED and the level
\* analysis
StagesInOrder ==
    /\ \A i, j \in 1..Len(stages) : i < j => StageRank(stages[i]) < StageRank(stages[j])
    /\ Len(stages) >= 1 => stages[1] = "CREATED"
    /\ Len(stages) >= 2 => StageRank(stages[2]) = 1

\* the call is over in exactly one of FINALIZED and ERROR
EndsFinalizedOrError ==
    pc = "done" =>
       /\ stages[Len(stages)] \in {"FINALIZED", "ERROR"}
       /\ ~({"FINALIZED", "ERROR"} \subseteq Range(stages))

Clamp(x, lo, hi) == IF FLt(x, lo) THEN lo ELSE IF FGt(x, hi) THEN hi ELSE x

InRange(x, lo, hi) == FLe(F(lo, 1), x) /\ FLe(x, F(hi, 1))

\* C4: isolation_efficiency is 0 when inside_similarity is 0 and otherwise
\* 1 - outside_similarity/inside_similarity clamped to [0,1]; it lies in [0,1] for
\* every pair of similarities, also when outside_similarity > inside_similarity.
IsolationEfficiencyClamped ==
    Has(IsoMetrics, "isolation_efficiency") =>
       LET i == IsoMetrics.inside_similarity
           o == IsoMetrics.outside_similarity
           e == IsoMetrics.isolation_efficiency
       IN  /\ e = IF i = F(0, 1) THEN F(0, 1)
                  ELSE Clamp(FSub(F(1, 1), FDiv(o, i)), F(0, 1), F(1, 1))
           /\ InRange(e, 0, 1)

\* C5: leakage_percentage is 100 when inside_similarity is 0 and otherwise
\* outside_similarity/inside_similarity*100 clamped to [0,100]; it is never
\* negative and never above 100.
LeakagePercentageClamped ==
    Has(IsoMetrics, "leakage_percentage") =>
       LET i == IsoMetrics.inside_similarity
           o == IsoMetrics.outside_similarity
           l == IsoMetrics.leakage_percentage
       IN  /\ l = IF i = F(0, 1) THEN F(100, 1)
                  ELSE Clamp(FMul(FDiv(o, i), F(100, 1)), F(0, 1), F(100, 1))
           /\ InRange(l, 0, 100)

\* the scores the scoring exposes in the detailed metrics
ExposedScores ==
    LET composite == Get(detailed_metrics, "composite_scores", EmptyDict)
        basic == Get(detailed_metrics, "basic", EmptyDict)
        iso == Get(detailed_metrics, "isolation_metrics", EmptyDict)
    IN  {composite[key] : key \in (DOMAIN composite) \ {"grade"}}
        \cup {basic[key] : key \in (DOMAIN basic) \cap {"isolation_score"}}
        \cup {iso[key] : key \in (DOMAIN iso) \cap {"combined_isolation_score"}}

\* C6: every score exposed by the scoring lies in [0,100], for every attenuation
\* (also negative), every wer and every pair of text similarities.
AllScoresInRange == \A score \in ExposedScores : InRange(score, 0, 100)

\* C7: with the reference "a b c", the inside text "a b c" recognized with
\* confidence 0.9 and an empty outside text, the assessment yields
\* inside_similarity 1, outside_similarity 0, isolation_efficiency 1 and a valid
\* reference check, and the scoring counts the isolation efficiency as perfect.
ScenarioAPerfectIsolation ==
    (/\ Returned
     /\ stages = <<"CREATED", "LEVEL_ANALYZED", "TEXT_ANALYZED", "ISOLATION_ASSESSED",
                   "SCORED", "FINALIZED">>
     /\ reference_text = TextABC
     /\ speech_analysis.inside.text = TextABC
     /\ speech_analysis.inside.confidence = F(9, 10)
     /\ speech_analysis.outside.text = NoText)
    => /\ isolation_assessment.inside_reference_check.valid
       /\ Has(IsoMetrics, "inside_similarity")
       /\ IsoMetrics.inside_similarity = F(1, 1)
       /\ IsoMetrics.outside_similarity = F(0, 1)
       /\ IsoMetrics.isolation_efficiency = F(1, 1)
       /\ detailed_metrics.composite_scores.efficiency_score = F(100, 1)

\* the level result is flagged anomalous
LevelAnomalous == Has(LevelData, "anomalous") /\ LevelData.anomalous = TRUE

BothSamples == inside_audio.kind = "samples" /\ outside_audio.kind = "samples"

\* the level analysis has produced its result from the samples of both channels
LevelResultOfSamples == BothSamples /\ LevelData # EmptyDict

\* C8: if either channel has zero RMS, the level result has attenuation_db 0 and
\* reduction_ratio 0, is flagged anomalous, and none of attenuation, channel
\* levels in dB and level difference is NaN or infinite.
ZeroRmsGivesFiniteAnomalousResult ==
    (LevelResultOfSamples /\ (inside_audio.rms = AmpZero \/ outside_audio.rms = AmpZero))
    => /\ LevelData.attenuation_db = F(0, 1)
       /\ LevelData.reduction_ratio = AmpZero
       /\ LevelAnomalous
       /\ IsFinite(LevelData.attenuation_db)
       /\ IsFinite(LevelData.sound_reduction_index)
       /\ IsFinite(LevelData.inside_level_db)
       /\ IsFinite(LevelData.outside_level_db)
       /\ IsFinite(LevelData.level_difference_db)

BothPositive == AmpPositive(inside_audio.rms) /\ AmpPositive(outside_audio.rms)

\* C9: for positive RMS values, inside_rms >= outside_rms gives attenuation_db >= 0
\* and no anomaly flag; outside_rms > inside_rms gives attenuation_db =
\* -20*log10(outside_rms/inside_rms) < 0 and the anomaly flag set in the result.
AttenuationSignAndAnomalyFlag ==
    (LevelResultOfSamples /\ BothPositive)
    => IF AmpGe(inside_audio.rms, outside_audio.rms)
       THEN /\ FGe(LevelData.attenuation_db, F(0, 1))
            /\ ~LevelAnomalous
       ELSE /\ FLt(LevelData.attenuation_db, F(0, 1))
            /\ LevelData.attenuation_db
                  = FNeg(Log10Times20(AmpDiv(outside_audio.rms, inside_audio.rms)))
            /\ LevelAnomalous

\* C10: for every pair of positive RMS values the reduction_ratio of the level
\* result is outside_rms / inside_rms, and it is the ratio reported in the
\* isolation metrics of the same recording.
ReductionRatioIsOutsideOverInside ==
    (LevelResultOfSamples /\ BothPositive)
    => /\ LevelData.reduction_ratio = AmpDiv(outside_audio.rms, inside_audio.rms)
       /\ Has(IsoMetrics, "level_reduction_ratio")
             => IsoMetrics.level_reduction_ratio = LevelData.reduction_ratio

\* the verdict texts of the attenuation bands and the suffix of a failed reference
\* check: every part a verdict of the code is made of
VerdictParts ==
    {"EXCELLENT ISOLATION", "GOOD ISOLATION", "SATISFACTORY ISOLATION",
     "WEAK ISOLATION", "INEFFECTIVE ISOLATION", "(REFERENCE PROBLEM)"}

\* the verdict carries an indicator beyond its band and the reference suffix
VerdictHasAnomalyIndicator ==
    \E i \in 1..Len(Overall.verdict) : Overall.verdict[i] \notin VerdictParts

Finalized == Returned /\ stages[Len(stages)] = "FINALIZED"

\* C11: when inside_rms = outside_rms (both positive), the level result is flagged
\* anomalous and the verdict of the finished assessment carries an anomaly
\* indicator.
EqualLevelsAreAnomalous ==
    (Finalized /\ LevelResultOfSamples /\ BothPositive
               /\ inside_audio.rms = outside_audio.rms)
    => /\ LevelAnomalous
       /\ VerdictHasAnomalyIndicator

\* the normalized form of a text: lowercased, punctuation stripped, white space
\* collapsed
Normalize(text) == JoinWords(CleanAndSplitText(text))

\* C12: text matching is insensitive to letter case and punctuation: the score
\* either text-similarity function gives two texts is the score it gives their
\* normalized forms.
TextMatchingIgnoresCaseAndPunctuation ==
    /\ call.fn = "_calculate_text_similarity" =>
          call.result = CalculateTextSimilarity(Normalize(call.text1),
                                                Normalize(call.text2))
    /\ call.fn = "_calculate_text_match" =>
          call.result = CalculateTextMatch(Normalize(call.text1), Normalize(call.text2))

\* a candidate word equal to the reference word exists
HasExactMatch(ref_word, candidates) ==
    \E j \in 1..Len(candidates) : candidates[j] = ref_word

\* a candidate word sharing the first 3 characters with the reference word exists
HasPrefixMatch(ref_word, candidates) ==
    \E j \in 1..Len(candidates) :
        /\ Len(ref_word) >= 3
        /\ Len(candidates[j]) >= 3
        /\ Prefix3(ref_word) = Prefix3(candidates[j])

\* twice the points of the reference words from position i on: 1 point for a word
\* with an exact match anywhere, half a point for a word with a prefix match only
RECURSIVE DoubledPoints(_, _, _)
DoubledPoints(ref_words, candidates, i) ==
    IF i > Len(ref_words) THEN 0
    ELSE (IF HasExactMatch(ref_words[i], candidates) THEN 2
          ELSE IF HasPrefixMatch(ref_words[i], candidates) THEN 1
          ELSE 0)
         + DoubledPoints(ref_words, candidates, i + 1)

\* C13: in word matching a reference word with an exact match anywhere among the
\* candidate words counts 1 whatever the order of the candidates, a 3-character
\* prefix match counts 0.5 only when the word has no exact match, and the total
\* never exceeds the number of reference words.
ExactMatchWinsWhateverTheOrder ==
    call.fn = "_count_matching_words" =>
       /\ call.result = F(DoubledPoints(call.ref_words, call.recognized_words, 1), 2)
       /\ FLe(call.result, F(Len(call.ref_words), 1))

ReferenceSuffix == "(REFERENCE PROBLEM)"

\* the reference check of the isolation assessment
ReferenceCheck == Get(isolation_assessment, "inside_reference_check", EmptyDict)

\* the reference check has run and did not pass
ReferenceCheckInvalid == Has(ReferenceCheck, "valid") /\ ReferenceCheck.valid = FALSE

\* C15: when the reference phrase is empty or absent, the finished assessment holds
\* a reference check that is not valid and names its reason, and is marked as
\* unverified by the suffix of its verdict, so that it differs from an assessment
\* whose check passed.
NoReferenceIsMarkedUnverified ==
    (Finalized /\ reference_text = NoText)
    => /\ ReferenceCheckInvalid
       /\ Has(ReferenceCheck, "error")
       /\ ReferenceSuffix \in Range(Overall.verdict)

\* the rule of the reference validation: the match is at least 0.6 and the
\* confidence at least 0.5
PassesThresholds(match_score, confidence) ==
    FGe(match_score, F(6, 10)) /\ FGe(confidence, F(5, 10))

\* the decision of _validate_spoken_text follows the rule
ValidateSpokenTextFollowsThresholds ==
    (call.fn = "_validate_spoken_text" /\ call.reference # NoText) =>
       (call.result.valid
           <=> PassesThresholds(call.result.match_score, call.confidence))

\* the decision of the spoofing check of recognize_speech follows the rule
SpoofingCheckFollowsThresholds ==
    call.fn = "recognize_speech" =>
       (call.result.passed
           <=> PassesThresholds(call.result.match_score, call.result.confidence))

\* C16: with a non-empty reference, a validation of the inside channel is valid
\* exactly when match_score >= 0.6 and confidence >= 0.5, both bounds inclusive;
\* every pass/fail decision reported for a recording follows this rule: the one
\* of _validate_spoken_text and the one of the spoofing check of recognize_speech.
SpoofDecisionsFollowThresholds ==
    ValidateSpokenTextFollowsThresholds /\ SpoofingCheckFollowsThresholds

\* the verdict text and the color of the band an attenuation lies in
BandOfAttenuation(attenuation_db) ==
    CASE FGe(attenuation_db, F(50, 1)) -> [text |-> "EXCELLENT ISOLATION",
                                           color |-> "darkgreen"]
      [] FGe(attenuation_db, F(40, 1)) /\ FLt(attenuation_db, F(50, 1)) ->
            [text |-> "GOOD ISOLATION", color |-> "green"]
      [] FGe(attenuation_db, F(30, 1)) /\ FLt(attenuation_db, F(40, 1)) ->
            [text |-> "SATISFACTORY ISOLATION", color |-> "orange"]
      [] FGe(attenuation_db, F(20, 1)) /\ FLt(attenuation_db, F(30, 1)) ->
            [text |-> "WEAK ISOLATION", color |-> "red"]
      [] OTHER -> [text |-> "INEFFECTIVE ISOLATION", color |-> "darkred"]

\* the verdict is the text of the band of the reported attenuation, followed by
\* the suffix exactly when the reference check is recorded as not valid
VerdictIsBandWithSuffix ==
    LET band == BandOfAttenuation(Overall.attenuation_db)
    IN  Overall.verdict = IF ReferenceCheckInvalid THEN <<band.text, ReferenceSuffix>>
                          ELSE <<band.text>>

\* C17 as stated: the verdict and the color are those of the attenuation band
\* only, and the suffix is appended exactly when the reference check is not valid,
\* without changing the band.
VerdictAndColorFromBandOnly ==
    Finalized =>
       /\ VerdictIsBandWithSuffix
       /\ Overall.color = BandOfAttenuation(Overall.attenuation_db).color

\* C17 amended: the verdict text is that of the attenuation band only, and the
\* suffix is appended exactly when the reference check is recorded as not valid,
\* without changing the band text; the color is that of the band when the suffix
\* is absent and purple, whatever the band, when it is present.
VerdictFromBandColorPurpleWithSuffix ==
    Finalized =>
       /\ VerdictIsBandWithSuffix
       /\ Overall.color = IF ReferenceCheckInvalid THEN "purple"
                          ELSE BandOfAttenuation(Overall.attenuation_db).color

\* C17 witness: an assessment in the best band whose reference check failed
ExcellentBandWithSuffixInPurple ==
    /\ Finalized
    /\ Overall.verdict = <<"EXCELLENT ISOLATION", ReferenceSuffix>>
    /\ Overall.color = "purple"
    /\ ReferenceCheckInvalid

\* the composite scores of the detailed metrics
Composite == Get(detailed_metrics, "composite_scores", EmptyDict)

\* w1*s1 + w2*s2 + ..., for a sequence of <<weight, score>> pairs
RECURSIVE WeightedSum(_)
WeightedSum(terms) ==
    IF terms = <<>> THEN F(0, 1)
    ELSE FAdd(FMul(terms[1][1], terms[1][2]), WeightedSum(Tail(terms)))

Grades == {"A", "B", "C", "D", "F"}

\* lo <= score < hi
ScoreWithin(score, lo, hi) == FGe(score, F(lo, 1)) /\ FLt(score, F(hi, 1))

\* C19: the grade follows from the score with inclusive lower bounds: A from 90,
\* B from 75, C from 60, D from 40, F below; 90.0 gives A and 89.999 gives B, and
\* every score gets exactly one of the five grades.
GradeHasInclusiveLowerBounds ==
    call.fn = "_score_to_grade" =>
       /\ call.result \in Grades
       /\ call.result = "A" <=> FGe(call.score, F(90, 1))
       /\ call.result = "B" <=> ScoreWithin(call.score, 75, 90)
       /\ call.result = "C" <=> ScoreWithin(call.score, 60, 75)
       /\ call.result = "D" <=> ScoreWithin(call.score, 40, 60)
       /\ call.result = "F" <=> FLt(call.score, F(40, 1))
       /\ call.score = F(90, 1) => call.result = "A"
       /\ call.score = F(89999, 1000) => call.result = "B"

\* C19 witness: the score 90.0 was graded A
GradedAAtNinety ==
    /\ call.fn = "_score_to_grade"
    /\ call.score = F(90, 1)
    /\ call.result = "A"

\* the score 89.999 was graded B
GradedBJustBelowNinety ==
    /\ call.fn = "_score_to_grade"
    /\ call.score = F(89999, 1000)
    /\ call.result = "B"

\* no recognition result was supplied to the assessment: the recognizer is absent
\* or disabled, or the recognition failed
NoRecognitionResult ==
    \/ ~(enable_speech_recognition /\ recognizer)
    \/ "TEXT_FAILED" \in Range(stages)

\* no stage after the text analysis raised
LaterStagesDidNotRaise ==
    Range(stages) \cap {"ISOLATION_FAILED", "SCORING_FAILED", "BASIC_METRICS_FAILED",
                        "FINAL_FAILED"} = {}

\* C20: with no speech-recognition result supplied, the assessment still completes
\* normally: it ends FINALIZED, not ERROR, with a verdict from the level analysis,
\* a composite score computed from the available sub-scores and a grade among A,
\* B, C, D and F.
CompletesWithScoreAndGradeWithoutRecognition ==
    (pc = "done" /\ NoRecognitionResult /\ LaterStagesDidNotRaise)
    => /\ Finalized
       /\ Overall.verdict[1] = BandOfAttenuation(Overall.attenuation_db).text
       /\ Has(Composite, "total_score")
       /\ Overall.isolation_score = Composite.total_score
       /\ Overall.composite_grade \in Grades

\* the fields of the stated overall assessment under the names the code gives
\* them: attenuation_db for the reduction in dB, isolation_score for the composite
\* score, composite_grade for the grade
StatedOverallFields ==
    {"verdict", "color", "quality", "attenuation_db", "isolation_score",
     "composite_grade", "summary", "recommendations", "spoof_suspected"}

\* C21: every overall assessment handed to the report writers, from a regular
\* run, from a degraded run or from the error path, carries the same set of
\* fields: verdict, color, quality, reduction in dB, composite score, grade,
\* summary, recommendations and spoof_suspected.
OverallAssessmentHasStatedFields ==
    Returned => DOMAIN Overall = StatedOverallFields

\* C22: artifacts of a stage are never modified by a later stage: integrating and
\* scoring (or the basic metrics, or the final assessment) leave the level
\* analysis, the recognition result and the isolation assessment as they were, no
\* field added and none overwritten.
LaterStagesLeaveArtifactsUnchanged ==
    [][(pc \in {"integrate", "basic_metrics", "overall_assessment"})
          => (audio_analysis' = audio_analysis
              /\ speech_analysis' = speech_analysis
              /\ isolation_assessment' = isolation_assessment)]_vars

\* C23: an engine selection while an assessment is in flight cannot change it: the
\* outside and the inside channel of an assessment are always processed under the
\* same recognizer configuration.
BothChannelsUnderOneConfiguration ==
    (pair_analysis.pc = "done" /\ pair_analysis.error = "none")
        => pair_analysis.outside_engine = pair_analysis.inside_engine

\* the results of the experiment so far
AllResults == IF experiment.pc = "idle" THEN <<>> ELSE experiment.all_results

\* C29: every result of run_experiment labelled with engine E was produced while E
\* was the active engine; when the switch to E fails, no analysis made with the
\* previous engine is recorded under E.
ResultsLabelledWithActiveEngine ==
    \A i \in 1..Len(AllResults) :
        AllResults[i].outside_engine # "None"
            => /\ AllResults[i].outside_engine = AllResults[i].engine
               /\ AllResults[i].inside_engine = AllResults[i].engine

\* the current engine of the recognizer is unset or has a loaded model registered
CurrentEngineIsLoaded == current_engine = "None" \/ current_engine \in engines

\* a call of set_engine that returned False has changed nothing
FailedSetEngineChangedNothing ==
    (set_engine_call.class # "none" /\ ~set_engine_call.result)
        => set_engine_call.after = set_engine_call.before

\* what C30 says, of MultiEngineSpeechRecognizer alone
MultiEngineCurrentEngineIsLoaded ==
    /\ CurrentEngineIsLoaded
    /\ set_engine_call.class = "MultiEngineSpeechRecognizer"
          => FailedSetEngineChangedNothing

\* C30: after any sequence of set_engine calls, on MultiEngineSpeechRecognizer or
\* on RecognizerStub, the current engine is unset or has a loaded model
\* registered (the stub registers none), and a set_engine that failed has left the
\* current engine and the loaded models unchanged.
CurrentEngineUnsetOrLoaded ==
    /\ CurrentEngineIsLoaded
    /\ stub_current_engine = "None"
    /\ FailedSetEngineChangedNothing

\* C25: the buffers are handed over only once the recording has fully stopped: at
\* the moment of a save is_recording is false and all streams are closed, and no
\* callback appends to buffers that have been saved.
BuffersSavedOnlyWhenStopped ==
    [][/\ (save_count' # save_count) => (~is_recording /\ streams = {})
       /\ (audio_data' # audio_data /\ data_recording' = data_recording)
             => save_count[data_recording] = 0]_vars

\* C26: each recording is stopped and saved at most once, also when the timer
\* fires while stop_recording is called from another thread, or when two calls of
\* stop_recording overlap or follow each other.
EachRecordingSavedAtMostOnce ==
    \A i \in 1..MaxRecordings : save_count[i] <= 1

\* C27: when start_recording returns False because a stream failed to open, no
\* recording is left running: is_recording is false, no stream is open and no
\* samples have been collected.
FailedStartLeavesNothingRunning ==
    [][(start_call.recording # 0 /\ start_call'.recording = start_call.recording
        /\ start_call.result = "running" /\ start_call'.result = "False")
          => /\ ~is_recording'
             /\ streams' = {}
             /\ \A channel \in Channels : audio_data'[channel] = 0]_vars

\* C28: the saved files and metadata of a recording carry the test name and the
\* reference text of the call of start_recording that started this recording, also
\* when a new start_recording is issued while the previous recording is running.
SavedUnderOwnNameAndReference ==
    \A s \in saved :
        s.recording # 0
            => /\ s.test_name = started[s.recording].test_name
               /\ s.reference_text \in {started[s.recording].reference_text,
                                        "not written"}

\* start_recording has returned True for a recording with a duration above zero
StartedWithDuration ==
    /\ start_call.recording # 0
    /\ start_call.result = "True"
    /\ start_call.duration > 0

====
